---- MODULE Spec2Model ----
(***************************************************************************)
(* HIBPDL++: the batch coordinator of main.cpp, the downloader engine of   *)
(* hibpdl.cpp / hibpdl.hpp with its http_worker threads, the SIGINT        *)
(* handler, and the record ordering and binary dump of hash_count.         *)
(*                                                                         *)
(* Strings are sequences of one-character strings.  A digest is a sequence *)
(* of bytes (0..255).  The key space and the inner nibble range are scaled *)
(* down: see the bounds below.                                             *)
(***************************************************************************)
EXTENDS Integers, Sequences, FiniteSets, TLC

(***************************************************************************)
(* Bounds of the model.                                                    *)
(***************************************************************************)
\* main.cpp:54 has MaxHashPrefix = 1 << 16; the model enumerates a smaller key space.
MaxHashPrefix == 4
\* hibpdl.cpp:118 iterates nibble 0x0..0xf; the model iterates 0..MaxNibble.
MaxNibble == 1
\* Largest value of the -t option (num_threads) in runs of the whole program.
MaxThreads == 1
\* Largest number of http_worker threads on one downloader taken alone.
MaxEngineThreads == 2
\* Largest number of records the transport's fixed body decodes to.
MaxRecords == 1
\* The longest collection handed to finalize taken alone.
MaxSortLen == 2
\* response_parser.hpp:53 has a hex_hash_ of 40 characters, 5 of the prefix
\* and 35 of the suffix; here the suffix has 1 + 2 * SuffixPairs characters.
SuffixPairs == 1
\* The largest number of lines of a body handed to the parser taken alone.
MaxLines == 2
\* the largest number of outer units of a batch followed merge by merge
MaxBatchUnits == 2
\* the largest number of -v options; with 3 every message of a worker is logged
MaxVerbosity == 3

(***************************************************************************)
(* Program constants.                                                      *)
(***************************************************************************)
CheckpointWidth == 4

OutputFilename == "hash+count.bin"

Min(a, b) == IF a < b THEN a ELSE b

(***************************************************************************)
(* util::nibble2hex, util::hex2nibble and the text conversions of main.    *)
(***************************************************************************)
HexUpper == <<"0","1","2","3","4","5","6","7","8","9","A","B","C","D","E","F">>

HexLower == <<"0","1","2","3","4","5","6","7","8","9","a","b","c","d","e","f">>

\* The digits above 9 taken from 'a'.
nibble2hex_Lower(nibble) == HexLower[nibble + 1]

nibble2hex(nibble) == HexUpper[nibble + 1]

\* A hex digit's value; 0 for any other character (the assert is compiled out
\* with NDEBUG and the function falls through to "return 0").
hex2nibble(c) ==
    IF \E i \in 1..16 : HexUpper[i] = c
    THEN (CHOOSE i \in 1..16 : HexUpper[i] = c) - 1
    ELSE IF \E i \in 11..16 : HexLower[i] = c
    THEN (CHOOSE i \in 11..16 : HexLower[i] = c) - 1
    ELSE 0

IsHexChar(c) == (\E i \in 1..16 : HexUpper[i] = c) \/ (\E i \in 11..16 : HexLower[i] = c)

\* operator<< of an unsigned value under std::hex: lower-case digits, no padding.
RECURSIVE ToHex(_)
ToHex(n) ==
    IF n < 16 THEN <<HexLower[n + 1]>>
    ELSE ToHex(n \div 16) \o <<HexLower[(n % 16) + 1]>>

\* std::setw(4) << std::setfill('0'): pads on the left, never truncates.
RECURSIVE SetW(_, _)
SetW(width, s) == IF Len(s) >= width THEN s ELSE SetW(width, <<"0">> \o s)

\* The first line of the checkpoint file as main writes it.
\* Both ends of the range written from the batch's start.
CheckpointRange_StartTwice(hp, step) ==
    SetW(CheckpointWidth, ToHex(hp)) \o <<"-">> \o SetW(CheckpointWidth, ToHex(hp))

CheckpointRange(hp, step) ==
    SetW(CheckpointWidth, ToHex(hp)) \o <<"-">> \o SetW(CheckpointWidth, ToHex(hp + step))

\* util::unpair(str, delim): split at the first delim; no delim: (str, "").
unpair(str, delim) ==
    IF \E i \in 1..Len(str) : str[i] = delim
    THEN LET index == CHOOSE i \in 1..Len(str) :
                          str[i] = delim /\ \A j \in 1..(i - 1) : str[j] # delim
         IN  <<SubSeq(str, 1, index - 1), SubSeq(str, index + 1, Len(str))>>
    ELSE <<str, <<>>>>

\* std::stoul(s, nullptr, 16): the value of the longest prefix of hex digits;
\* -1 stands for std::invalid_argument (no digit at all).
RECURSIVE StoulAcc(_, _, _)
StoulAcc(s, i, acc) ==
    IF i > Len(s) \/ ~IsHexChar(s[i]) THEN acc
    ELSE StoulAcc(s, i + 1, acc * 16 + hex2nibble(s[i]))

stoul16(s) == IF Len(s) = 0 \/ ~IsHexChar(s[1]) THEN -1 ELSE StoulAcc(s, 1, 0)

(***************************************************************************)
(* hash_count: the record, its ordering and its binary dump.               *)
(***************************************************************************)
\* std::lexicographical_compare(a.begin(), a.end(), b.begin(), b.end())
RECURSIVE LexLess(_, _, _)
LexLess(a, b, i) ==
    IF i > Len(b) THEN FALSE
    ELSE IF i > Len(a) THEN TRUE
    ELSE IF a[i] < b[i] THEN TRUE
    ELSE IF b[i] < a[i] THEN FALSE
    ELSE LexLess(a, b, i + 1)

\* A comparator that looks at the first byte only.
smallest_hash_first_FirstByteOnly(lhs, rhs) == lhs.data[1] < rhs.data[1]

smallest_hash_first(lhs, rhs) == LexLess(lhs.data, rhs.data, 1)

\* x put into the ordered sequence s at every place that keeps it ordered.
InsertOrdered(x, s) ==
    {SubSeq(s, 1, k) \o <<x>> \o SubSeq(s, k + 1, Len(s)) :
        k \in {n \in 0..Len(s) :
                  /\ \A i \in 1..n : ~smallest_hash_first(x, s[i])
                  /\ \A i \in (n + 1)..Len(s) : ~smallest_hash_first(s[i], x)}}

\* std::sort(begin, end, smallest_hash_first()): the ordered permutations of the
\* input; which one, among records with equal digests, is unspecified.
RECURSIVE SortResults(_)
SortResults(c) ==
    IF Len(c) = 0 THEN {<<>>}
    ELSE UNION {InsertOrdered(Head(c), s) : s \in SortResults(Tail(c))}

\* The count written in the byte order of a little-endian host, without htonl.
BigEndian32_HostOrder(n) ==
    <<n % 256, (n \div 256) % 256, (n \div 65536) % 256, (n \div 16777216) % 256>>

\* htonl(count) written as 4 bytes: big-endian.
BigEndian32(n) ==
    <<(n \div 16777216) % 256, (n \div 65536) % 256, (n \div 256) % 256, n % 256>>

\* hash_count::dump
dump(item) == item.data \o BigEndian32(item.count)

\* ntohl of the 4 bytes read into cn
FromBigEndian32(b) == ((b[1] * 256 + b[2]) * 256 + b[3]) * 256 + b[4]

\* hash_count::read from offset pos of a stream: size bytes to data, 4 to cn
read(stream, pos, size) ==
    [data |-> SubSeq(stream, pos + 1, pos + size),
     count |-> FromBigEndian32(SubSeq(stream, pos + size + 1, pos + size + 4))]

RECURSIVE DumpAll(_)
DumpAll(c) == IF Len(c) = 0 THEN <<>> ELSE dump(Head(c)) \o DumpAll(Tail(c))

(***************************************************************************)
(* State.                                                                  *)
(***************************************************************************)
VARIABLES
    \* the invocation: -t, -S and -L (main.cpp:163-167, 244-270); -y is not given
    num_threads, hash_prefix_step, last_hash_prefix,
    \* the transport: how many records each 200 body decodes to
    records_per_response,
    \* the file system
    output_file, checkpoint_file,
    \* main's position and locals
    pc, first_hash_prefix, hash_prefix, do_quit, answer, handler_installed,
    \* the downloader of the current batch (hibpdl.hpp:74-79)
    hash_queue_, collection_, do_quit_, queue_mutex_, collection_mutex_,
    \* its mutex around std::cout and std::cerr and its verbosity (hibpdl.hpp:77, 80)
    output_mutex_, verbosity_,
    \* the worker threads of the current batch: position and locals of http_worker
    started, wpc, prefix, nibble, hashes,
    \* history of the current downloader
    dequeued,      \* the units popped from hash_queue_, in order
    request_log,   \* the paths of the requests answered with status 200, and
                   \* whether a request was answered otherwise or not at all
    late_deq,      \* worker popped its current unit after stop()
    late_req,      \* requests the worker issued after stop(), counted to 2
    \* a response_parser (response_parser.hpp:50-55) and its position in parse
    source_, current_, result_, hash_count_, hex_hash_, ppc,
    \* what was handed to the parser: the prefix and the lines of the body
    parse_prefix, body_lines,
    \* the calls of parse on this parser so far, and what the first returned
    parse_calls, first_result,
    \* a reader of the output file: its offset and the records it has read
    read_pos, loaded

configVars == <<num_threads, hash_prefix_step, last_hash_prefix, records_per_response>>

fileVars == <<output_file, checkpoint_file>>

mainVars == <<pc, first_hash_prefix, hash_prefix, do_quit, answer, handler_installed>>

engineVars == <<hash_queue_, collection_, do_quit_, queue_mutex_, collection_mutex_>>

outputVars == <<output_mutex_, verbosity_>>

workerVars == <<started, wpc, prefix, nibble, hashes>>

historyVars == <<dequeued, request_log, late_deq, late_req>>

parserVars == <<source_, current_, result_, hash_count_, hex_hash_, ppc, parse_prefix, body_lines,
                parse_calls, first_result>>

readerVars == <<read_pos, loaded>>

vars == <<configVars, fileVars, mainVars, engineVars, outputVars, workerVars, historyVars,
          parserVars, readerVars>>

Workers == 1..MaxEngineThreads

NoOwner == 0

NoPrefix == <<>>

EmptyLog == [issued |-> {}, repeated |-> FALSE, failed |-> FALSE]

Terminal == {"exit", "quit", "crashed"}

\* main positions at which the downloader hibpdl of the loop body exists
EngineStates == {"spawn", "join", "check_quit", "finalize", "write_out", "write_checkpoint"}

EngineAlive == pc \in EngineStates

(***************************************************************************)
(* The transport and the decoder, as the workers see them.                 *)
(***************************************************************************)
\* The digest response_parser builds from the 5 prefix characters and a suffix:
\* pairs of hex characters, high nibble first.
Digest(hash_prefix5, suffix) ==
    <<hex2nibble(hash_prefix5[1]) * 16 + hex2nibble(hash_prefix5[2]),
      hex2nibble(hash_prefix5[3]) * 16 + hex2nibble(hash_prefix5[4]),
      hex2nibble(hash_prefix5[5]) * 16 + suffix>>

\* parser.parse(res->body) for the fixed body of n lines: line k has suffix k
\* and count k.
Response(hash_prefix5, n) ==
    [k \in 1..n |-> [data |-> Digest(hash_prefix5, k), count |-> k]]

(***************************************************************************)
(* downloader::downloader                                                  *)
(***************************************************************************)
\* hash_prefix_t p for the outer unit i
UnitPrefix(i) ==
    <<nibble2hex(((i \div 4096) % 256) % 16),
      nibble2hex(((i \div 256) % 256) % 16),
      nibble2hex(((i \div 16) % 256) % 16),
      nibble2hex((i % 256) % 16)>>

\* the queue the constructor fills: one unit per i in [first_prefix, last_prefix)
InitialQueue(first_prefix, last_prefix) ==
    [k \in 1..(IF last_prefix > first_prefix THEN last_prefix - first_prefix ELSE 0)
        |-> UnitPrefix(first_prefix + k - 1)]

\* the exclusive end main passes to the constructor
BatchEnd(hp) == Min(hp + hash_prefix_step, MaxHashPrefix)

\* -v is not given: no worker logs anything, the output mutex stays free
NoLogging == output_mutex_ = NoOwner /\ verbosity_ = 0

NoEngine ==
    /\ hash_queue_' = <<>>
    /\ collection_' = <<>>
    /\ do_quit_' = FALSE
    /\ queue_mutex_' = NoOwner
    /\ collection_mutex_' = NoOwner
    /\ started' = 0
    /\ wpc' = [w \in Workers |-> "idle"]
    /\ prefix' = [w \in Workers |-> NoPrefix]
    /\ nibble' = [w \in Workers |-> 0]
    /\ hashes' = [w \in Workers |-> <<>>]
    /\ dequeued' = <<>>
    /\ request_log' = EmptyLog
    /\ late_deq' = [w \in Workers |-> FALSE]
    /\ late_req' = [w \in Workers |-> 0]

\* no parser at work and nothing read back
NoParser ==
    /\ source_ = <<>>
    /\ current_ = 0
    /\ result_ = <<>>
    /\ hash_count_ = [data |-> <<>>, count |-> 0]
    /\ hex_hash_ = <<>>
    /\ ppc = "idle"
    /\ parse_prefix = <<>>
    /\ body_lines = <<>>
    /\ parse_calls = 0
    /\ first_result = <<>>

NoReader ==
    /\ read_pos = 0
    /\ loaded = <<>>

\* The invocations: -t up to MaxThreads, every -S the option accepts, and -L
\* either absent (MaxHashPrefix) or, in runs with one worker thread, the
\* largest value the option accepts.
Init ==
    /\ NoParser
    /\ NoReader
    /\ num_threads \in 0..MaxThreads
    /\ hash_prefix_step \in 0..(MaxHashPrefix - 1)
    /\ last_hash_prefix \in IF num_threads = 1 THEN {MaxHashPrefix - 1, MaxHashPrefix}
                                               ELSE {MaxHashPrefix}
    /\ records_per_response \in 0..MaxRecords
    /\ output_file = [exists |-> FALSE, data |-> <<>>]
    /\ checkpoint_file = [exists |-> FALSE, range |-> <<>>, out |-> ""]
    /\ pc = "start"
    /\ first_hash_prefix = 0
    /\ hash_prefix = 0
    /\ do_quit = FALSE
    /\ answer = ""
    /\ handler_installed = FALSE
    /\ hash_queue_ = <<>>
    /\ collection_ = <<>>
    /\ do_quit_ = FALSE
    /\ queue_mutex_ = NoOwner
    /\ collection_mutex_ = NoOwner
    /\ NoLogging
    /\ started = 0
    /\ wpc = [w \in Workers |-> "idle"]
    /\ prefix = [w \in Workers |-> NoPrefix]
    /\ nibble = [w \in Workers |-> 0]
    /\ hashes = [w \in Workers |-> <<>>]
    /\ dequeued = <<>>
    /\ request_log = EmptyLog
    /\ late_deq = [w \in Workers |-> FALSE]
    /\ late_req = [w \in Workers |-> 0]

(***************************************************************************)
(* main: start-up (main.cpp:161-385).                                      *)
(***************************************************************************)
NoOutput == [exists |-> FALSE, data |-> <<>>]

NoCheckpoint == [exists |-> FALSE, range |-> <<>>, out |-> ""]

\* The program is started: first from scratch, later again after a run ended.
\* Lines 296-364: the checkpoint prompt, else the overwrite prompt.
Launch ==
    /\ pc \in {"start"} \cup Terminal
    /\ \E ans \in {"", "y", "r", "q", "n"} :
        LET resume_prompt == /\ checkpoint_file.exists
                             /\ checkpoint_file.out = OutputFilename /\ output_file.exists
            overwrite_prompt == ~checkpoint_file.exists /\ output_file.exists
            to == unpair(checkpoint_file.range, "-")[2]
        IN  /\ answer' = ans
            /\ IF resume_prompt
               THEN /\ ans \in {"y", "r", "q"}
                    /\ first_hash_prefix' = IF ans = "y" /\ stoul16(to) >= 0 THEN stoul16(to) ELSE 0
                    /\ pc' = IF ans = "q" THEN "quit"
                             ELSE IF ans = "y" /\ stoul16(to) < 0 THEN "crashed"
                             ELSE "check_first"
                    /\ output_file' = IF ans = "r" THEN NoOutput ELSE output_file
                    /\ checkpoint_file' = IF ans = "r" THEN NoCheckpoint ELSE checkpoint_file
               ELSE IF overwrite_prompt
               THEN /\ ans \in {"y", "n"}
                    /\ first_hash_prefix' = 0
                    /\ pc' = IF ans = "y" THEN "check_first" ELSE "quit"
                    /\ output_file' = IF ans = "y" THEN NoOutput ELSE output_file
                    /\ checkpoint_file' = checkpoint_file
               ELSE /\ ans = ""
                    /\ first_hash_prefix' = 0
                    /\ pc' = "check_first"
                    /\ UNCHANGED fileVars
    /\ hash_prefix' = 0
    /\ do_quit' = FALSE
    /\ handler_installed' = FALSE
    /\ UNCHANGED <<parserVars, readerVars, configVars, outputVars, engineVars, workerVars, historyVars>>

\* Lines 366-385: a start from 0000 drops a checkpoint that is still there.
CheckFirst ==
    /\ pc = "check_first"
    /\ IF first_hash_prefix # 0
       THEN /\ pc' = IF first_hash_prefix > MaxHashPrefix - 1 THEN "quit" ELSE "for_test"
            /\ UNCHANGED fileVars
       ELSE /\ pc' = "for_test"
            /\ checkpoint_file' = NoCheckpoint
            /\ UNCHANGED output_file
    /\ hash_prefix' = first_hash_prefix
    /\ UNCHANGED <<first_hash_prefix, do_quit, answer, handler_installed>>
    /\ UNCHANGED <<parserVars, readerVars, configVars, outputVars, engineVars, workerVars, historyVars>>

(***************************************************************************)
(* main: the batch loop (main.cpp:387-484) and the end (486-491).          *)
(***************************************************************************)
\* Line 389: hash_prefix < last_hash_prefix
ForTest ==
    /\ pc = "for_test"
    /\ pc' = IF hash_prefix < last_hash_prefix THEN "construct" ELSE "after_loop"
    /\ UNCHANGED <<first_hash_prefix, hash_prefix, do_quit, answer, handler_installed>>
    /\ UNCHANGED <<parserVars, readerVars, configVars, outputVars, fileVars, engineVars, workerVars, historyVars>>

\* Lines 402-423: a fresh downloader over [hash_prefix, min(hash_prefix + step,
\* MaxHashPrefix)), and the SIGINT handler bound to it.
Construct ==
    /\ pc = "construct"
    /\ pc' = "spawn"
    /\ hash_queue_' = InitialQueue(hash_prefix, BatchEnd(hash_prefix))
    /\ collection_' = <<>>
    /\ do_quit_' = FALSE
    /\ handler_installed' = TRUE
    /\ UNCHANGED <<queue_mutex_, collection_mutex_>>
    /\ UNCHANGED <<first_hash_prefix, hash_prefix, do_quit, answer>>
    /\ UNCHANGED <<parserVars, readerVars, configVars, outputVars, fileVars, workerVars, historyVars>>

\* downloader::queue_size (hibpdl.hpp:52-55)
queue_size == Len(hash_queue_)

\* As many threads as -t asks for, whatever the queue holds.
start_thread_count_Configured == num_threads

\* Line 424: std::min(num_threads, hibpdl.queue_size())
start_thread_count == Min(num_threads, queue_size)

\* Lines 424-428: start_thread_count threads run http_worker.
Spawn ==
    /\ pc = "spawn"
    /\ pc' = "join"
    /\ started' = start_thread_count
    /\ wpc' = [w \in Workers |-> IF w <= start_thread_count THEN "while" ELSE "idle"]
    /\ UNCHANGED <<prefix, nibble, hashes>>
    /\ UNCHANGED <<first_hash_prefix, hash_prefix, do_quit, answer, handler_installed>>
    /\ UNCHANGED <<parserVars, readerVars, configVars, outputVars, fileVars, engineVars, historyVars>>

\* The threads detached instead of joined: main goes on at once.
Joined_Detached(w) == TRUE

\* Line 431: worker.join() returns once the thread has left http_worker
Joined(w) == wpc[w] = "returned"

\* Lines 429-432: every worker has returned.
Join ==
    /\ pc = "join"
    /\ \A w \in 1..started : Joined(w)
    /\ pc' = "check_quit"
    /\ UNCHANGED <<first_hash_prefix, hash_prefix, do_quit, answer, handler_installed>>
    /\ UNCHANGED <<parserVars, readerVars, configVars, outputVars, fileVars, engineVars, workerVars, historyVars>>

\* The test of line 433 left out: the loop never breaks.
BreakRequested_Never == FALSE

\* Line 433: if (do_quit)
BreakRequested == do_quit

\* Lines 433-440: a stop request ends the loop; the downloader goes out of scope.
CheckQuit ==
    /\ pc = "check_quit"
    /\ IF BreakRequested
       THEN /\ pc' = "after_loop"
            /\ NoEngine
       ELSE /\ pc' = "finalize"
            /\ UNCHANGED <<engineVars, workerVars, historyVars>>
    /\ UNCHANGED <<first_hash_prefix, hash_prefix, do_quit, answer, handler_installed>>
    /\ UNCHANGED <<parserVars, readerVars, configVars, outputVars, fileVars>>

\* downloader::finalize (hibpdl.hpp:62-66)
finalize(c) == SortResults(c)

\* Line 449
Finalize ==
    /\ pc = "finalize"
    /\ pc' = "write_out"
    /\ collection_' \in finalize(collection_)
    /\ UNCHANGED <<hash_queue_, do_quit_, queue_mutex_, collection_mutex_>>
    /\ UNCHANGED <<first_hash_prefix, hash_prefix, do_quit, answer, handler_installed>>
    /\ UNCHANGED <<parserVars, readerVars, configVars, outputVars, fileVars, workerVars, historyVars>>

\* The file opened without std::ios::app: what was there is lost.
AppendOutput_Truncating(file, c) == [exists |-> TRUE, data |-> DumpAll(c)]

\* What lines 457-462 leave in the output file: opened in append mode, every
\* item of the collection dumped.
AppendOutput(file, c) == [exists |-> TRUE, data |-> file.data \o DumpAll(c)]

WriteOut ==
    /\ pc = "write_out"
    /\ pc' = "write_checkpoint"
    /\ output_file' = AppendOutput(output_file, collection_)
    /\ UNCHANGED checkpoint_file
    /\ UNCHANGED <<first_hash_prefix, hash_prefix, do_quit, answer, handler_installed>>
    /\ UNCHANGED <<parserVars, readerVars, configVars, outputVars, engineVars, workerVars, historyVars>>

\* What lines 467-477 write: the range and the output file's name.
CheckpointText(hp, step) ==
    [exists |-> TRUE, range |-> CheckpointRange(hp, step), out |-> OutputFilename]

\* The loop going on with the unit after the batch's first.
Advanced_ByOne(hp) == hp + 1

\* Line 390: hash_prefix += hash_prefix_step
Advanced(hp) == hp + hash_prefix_step

\* Lines 467-484 and the loop's increment (line 390).
WriteCheckpoint ==
    /\ pc = "write_checkpoint"
    /\ pc' = "for_test"
    /\ checkpoint_file' = CheckpointText(hash_prefix, hash_prefix_step)
    /\ hash_prefix' = Advanced(hash_prefix)
    /\ NoEngine
    /\ UNCHANGED output_file
    /\ UNCHANGED <<first_hash_prefix, do_quit, answer, handler_installed>>
    /\ UNCHANGED <<parserVars, readerVars, configVars, outputVars>>

\* The checkpoint file removed at the end whatever do_quit says.
RemoveAtEnd_Always == TRUE

\* Whether lines 486-489 remove the checkpoint file.
RemoveAtEnd == ~do_quit

\* Lines 486-491
AfterLoop ==
    /\ pc = "after_loop"
    /\ pc' = "exit"
    /\ checkpoint_file' = IF RemoveAtEnd THEN NoCheckpoint ELSE checkpoint_file
    /\ handler_installed' = FALSE
    /\ UNCHANGED output_file
    /\ UNCHANGED <<first_hash_prefix, hash_prefix, do_quit, answer>>
    /\ UNCHANGED <<parserVars, readerVars, configVars, outputVars, engineVars, workerVars, historyVars>>

(***************************************************************************)
(* SIGINT: signal_handler -> shutdown_handler (main.cpp:153-157, 412-420)  *)
(* and downloader::stop (hibpdl.cpp:79-82).                                *)
(***************************************************************************)
\* The handler calls hibpdl.stop() and sets do_quit.  Between two batches and
\* after the loop the captured downloader is gone: the call through the
\* dangling reference either lands in dead storage, and no live object
\* changes, or ends the process.
Sigint ==
    /\ handler_installed
    /\ pc \notin Terminal
    /\ ~do_quit \/ (EngineAlive /\ ~do_quit_)
    /\ do_quit' = TRUE
    /\ do_quit_' = IF EngineAlive THEN TRUE ELSE do_quit_
    /\ \E outcome \in IF EngineAlive THEN {"stored"} ELSE {"stored", "crashed"} :
          pc' = IF outcome = "crashed" THEN "crashed" ELSE pc
    /\ UNCHANGED <<hash_queue_, collection_, queue_mutex_, collection_mutex_>>
    /\ UNCHANGED <<first_hash_prefix, hash_prefix, answer, handler_installed>>
    /\ UNCHANGED <<parserVars, readerVars, configVars, outputVars, fileVars, workerVars, historyVars>>

(***************************************************************************)
(* downloader::http_worker (hibpdl.cpp:84-172), one action per step of a   *)
(* worker thread w.                                                        *)
(***************************************************************************)
mainUnchanged == UNCHANGED <<pc, first_hash_prefix, hash_prefix, do_quit, answer, handler_installed>>

\* Line 92: while (!do_quit_.load())
WhileTest(w) ==
    /\ wpc[w] = "while"
    /\ wpc' = [wpc EXCEPT ![w] = IF do_quit_ THEN "returned" ELSE "lock_queue"]
    /\ UNCHANGED <<started, prefix, nibble, hashes>>
    /\ mainUnchanged
    /\ UNCHANGED <<parserVars, readerVars, configVars, outputVars, fileVars, engineVars, historyVars>>

\* No mutual exclusion on the queue.
QueueMutexFree_Always == TRUE

\* std::lock_guard on queue_mutex_ can be taken
QueueMutexFree == queue_mutex_ = NoOwner

\* Lines 95-111: the lock is taken; an empty queue ends the worker (the guard
\* releases the mutex on return); otherwise prefix = hash_queue_.front().
LockQueue(w) ==
    /\ wpc[w] = "lock_queue"
    /\ QueueMutexFree
    /\ IF Len(hash_queue_) = 0
       THEN /\ wpc' = [wpc EXCEPT ![w] = "returned"]
            /\ UNCHANGED <<queue_mutex_, prefix>>
       ELSE /\ wpc' = [wpc EXCEPT ![w] = "pop"]
            /\ prefix' = [prefix EXCEPT ![w] = Head(hash_queue_)]
            /\ queue_mutex_' = w
    /\ UNCHANGED <<hash_queue_, collection_, do_quit_, collection_mutex_>>
    /\ UNCHANGED <<started, nibble, hashes>>
    /\ mainUnchanged
    /\ UNCHANGED <<parserVars, readerVars, configVars, outputVars, fileVars, historyVars>>

\* Line 112: hash_queue_.pop()
Popped(queue) == Tail(queue)

\* The lock_guard declared in the loop body instead of the inner block: the
\* worker keeps the mutex after the pop.
QueueGuardEnd_Kept(w) == w

\* Line 114: the block of the lock_guard ends and queue_mutex_ is released.
QueueGuardEnd(w) == NoOwner

\* Lines 112-117: hash_queue_.pop(), the guard releases the mutex, then the
\* locals of the unit: collection_t hashes; nibble = 0.
Pop(w) ==
    /\ wpc[w] = "pop"
    /\ hash_queue_' = Popped(hash_queue_)
    /\ queue_mutex_' = QueueGuardEnd(w)
    /\ wpc' = [wpc EXCEPT ![w] = "nibble"]
    /\ hashes' = [hashes EXCEPT ![w] = <<>>]
    /\ nibble' = [nibble EXCEPT ![w] = 0]
    /\ dequeued' = Append(dequeued, prefix[w])
    /\ late_deq' = [late_deq EXCEPT ![w] = do_quit_]
    /\ UNCHANGED <<collection_, do_quit_, collection_mutex_>>
    /\ UNCHANGED <<started, prefix>>
    /\ mainUnchanged
    /\ UNCHANGED <<parserVars, readerVars, configVars, outputVars, fileVars, request_log, late_req>>

\* The loop test written with < instead of <=.
NibbleInRange_Exclusive(n) == n < MaxNibble

\* Line 118: while (nibble <= 0xf)
NibbleInRange(n) == n <= MaxNibble

\* The stop check before the fetch left out.
QuitSeen_Never == FALSE

\* Line 120: if (do_quit_.load()) return;
QuitSeen == do_quit_

\* The stop check leaving the inner loop with break, on to the merge.
OnQuit_Merge == "lock_coll"

\* Line 130: return, out of http_worker past the merge of lines 160-171
OnQuit == "returned"

\* Lines 118-131: the loop test and the stop check before each fetch.
NibbleTest(w) ==
    /\ wpc[w] = "nibble"
    /\ wpc' = [wpc EXCEPT ![w] = IF ~NibbleInRange(nibble[w]) THEN "lock_coll"
                                 ELSE IF QuitSeen THEN OnQuit
                                 ELSE "get"]
    /\ UNCHANGED <<started, prefix, nibble, hashes>>
    /\ mainUnchanged
    /\ UNCHANGED <<parserVars, readerVars, configVars, outputVars, fileVars, engineVars, historyVars>>

\* Lines 132-133: prefix[4] = nibble2hex(nibble); hash_prefix(prefix.begin(), prefix.end())
HashPrefix(w) == Append(prefix[w], nibble2hex(nibble[w]))

\* Line 134: the path of the request
RequestPath(w) == <<"/", "r", "a", "n", "g", "e", "/">> \o HashPrefix(w)

\* Line 144: hashes.insert(hashes.end(), result.begin(), result.end())
AppendResult(buffer, result) == buffer \o result

\* ++nibble placed after the test of the status instead of inside it.
NibbleAfter_Always(status, n) == n + 1

\* Line 145: ++nibble, reached with status 200 only
NibbleAfter(status, n) == IF status = 200 THEN n + 1 ELSE n

\* The worker giving up on a request that was not answered with 200.
AfterFetch_ReturnOnError(status) == IF status = 200 THEN "nibble" ELSE "returned"

\* Lines 135-158 have no return and no break: whatever the answer, the worker
\* is back at the loop test of line 118.
AfterFetch(status) == "nibble"

\* Lines 135-158: cli.Get(path) and its result.  status 200: the body is
\* parsed, its records go to the local buffer and the nibble advances;
\* result.front() of an empty result reads no element: the process dies or the
\* read goes unnoticed.  Another status is reported, no result at all
\* (status -1) is skipped: the nibble stays.
Fetch(w) ==
    /\ wpc[w] = "get"
    /\ \E status \in {200, 429, -1} :
        IF status = 200
        THEN LET result == Response(HashPrefix(w), records_per_response)
             IN  \/ /\ Len(result) = 0
                    /\ pc' = "crashed"
                    /\ handler_installed' = FALSE
                    /\ NoEngine
                    /\ UNCHANGED <<first_hash_prefix, hash_prefix, do_quit, answer>>
                 \/ /\ wpc' = [wpc EXCEPT ![w] = AfterFetch(status)]
                    /\ hashes' = [hashes EXCEPT ![w] = AppendResult(@, result)]
                    /\ nibble' = [nibble EXCEPT ![w] = NibbleAfter(status, @)]
                    /\ request_log' =
                          [issued |-> request_log.issued \cup {RequestPath(w)},
                           repeated |-> request_log.repeated \/ RequestPath(w) \in request_log.issued,
                           failed |-> request_log.failed]
                    /\ late_req' = [late_req EXCEPT ![w] = IF do_quit_ THEN Min(@ + 1, 2) ELSE @]
                    /\ UNCHANGED <<started, prefix>>
                    /\ mainUnchanged
                    /\ UNCHANGED <<engineVars, dequeued, late_deq>>
        ELSE /\ wpc' = [wpc EXCEPT ![w] = AfterFetch(status)]
             /\ nibble' = [nibble EXCEPT ![w] = NibbleAfter(status, @)]
             /\ late_req' = [late_req EXCEPT ![w] = IF do_quit_ THEN Min(@ + 1, 2) ELSE @]
             /\ request_log' = [request_log EXCEPT !.failed = TRUE]
             /\ UNCHANGED <<started, prefix, hashes>>
             /\ mainUnchanged
             /\ UNCHANGED <<engineVars, dequeued, late_deq>>
    /\ UNCHANGED <<parserVars, readerVars, configVars, outputVars, fileVars>>

\* std::lock_guard on collection_mutex_ can be taken
CollectionMutexFree == collection_mutex_ = NoOwner

\* Line 162: std::lock_guard<std::mutex> lock(collection_mutex_)
LockCollection(w) ==
    /\ wpc[w] = "lock_coll"
    /\ CollectionMutexFree
    /\ collection_mutex_' = w
    /\ wpc' = [wpc EXCEPT ![w] = "insert"]
    /\ UNCHANGED <<hash_queue_, collection_, do_quit_, queue_mutex_>>
    /\ UNCHANGED <<started, prefix, nibble, hashes>>
    /\ mainUnchanged
    /\ UNCHANGED <<parserVars, readerVars, configVars, outputVars, fileVars, historyVars>>

\* The buffer assigned to the collection instead of appended.
Merged_Assign(collection, buffer) == buffer

\* Line 163: collection_.insert(collection_.end(), hashes.begin(), hashes.end())
Merged(collection, buffer) == collection \o buffer

\* The mutex locked by hand and never unlocked.
CollectionGuardEnd_Kept(w) == w

\* Line 171: the block of the lock_guard ends and collection_mutex_ is released.
CollectionGuardEnd(w) == NoOwner

\* Lines 163-171: the merge; the guard releases the mutex; back to line 92.
Insert(w) ==
    /\ wpc[w] = "insert"
    /\ collection_' = Merged(collection_, hashes[w])
    /\ collection_mutex_' = CollectionGuardEnd(w)
    /\ wpc' = [wpc EXCEPT ![w] = "while"]
    /\ UNCHANGED <<hash_queue_, do_quit_, queue_mutex_>>
    /\ UNCHANGED <<started, prefix, nibble, hashes>>
    /\ mainUnchanged
    /\ UNCHANGED <<parserVars, readerVars, configVars, outputVars, fileVars, historyVars>>

(***************************************************************************)
(* response_parser (response_parser.hpp:14-148).                           *)
(***************************************************************************)
CR == "\r"

LF == "\n"

\* '\0', what peek() returns at the end of the source
NUL == ""

COLON == ":"

\* hex_hash_.size()
HexHashSize == 6 + 2 * SuffixPairs

\* Line 57: eof()
eof == current_ >= Len(source_)

\* Lines 69-76: peek() with the position at cur
PeekAt(cur) == IF cur >= Len(source_) THEN NUL ELSE source_[cur + 1]

\* Lines 78-81
is_digit(c) == \E i \in 1..10 : HexUpper[i] = c

\* Lines 83-86: upper case only
is_hexdigit(c) == \E i \in 1..16 : HexUpper[i] = c

\* c - '0' for a digit c
DigitValue(c) == (CHOOSE i \in 1..10 : HexUpper[i] = c) - 1

\* num declared as std::uint16_t: the upper half is lost.
TimesTenPlus_Narrow(num, digit) == [hi |-> 0, lo |-> (num.lo * 10 + digit) % 65536]

\* std::uint32_t num as two halves of 16 bits, so that num * 10 + digit wraps
\* at 2^32 as it does in lines 93-94.
TimesTenPlus(num, digit) ==
    LET lo == num.lo * 10 + digit
    IN  [hi |-> (num.hi * 10 + (lo \div 65536)) % 65536, lo |-> lo % 65536]

\* Lines 88-97: consume_number from position cur with num so far.
RECURSIVE consume_number(_, _)
consume_number(cur, num) ==
    IF is_digit(PeekAt(cur))
    THEN consume_number(cur + 1, TimesTenPlus(num, DigitValue(PeekAt(cur))))
    ELSE [cur |-> cur, num |-> num.hi * 65536 + num.lo]

\* Lines 101-110: hex digits are copied to hex_hash_ from index i on (counted
\* from 0) until a character is no hex digit or hex_hash_ is full.
RECURSIVE CopyHex(_, _, _)
CopyHex(hex, cur, i) ==
    IF is_hexdigit(PeekAt(cur)) /\ i # HexHashSize
    THEN CopyHex([hex EXCEPT ![i + 1] = PeekAt(cur)], cur + 1, i + 1)
    ELSE [hex |-> hex, cur |-> cur, i |-> i]

\* The pairs decoded low nibble first.
DecodeHex_LowFirst(hex) ==
    [k \in 1..(HexHashSize \div 2) |->
        (((hex2nibble(hex[2 * k]) * 16) % 256) + hex2nibble(hex[2 * k - 1])) % 256]

\* Lines 113-119: pairs of hex_hash_ to bytes, (hi_nibble << 4) | lo_nibble
DecodeHex(hex) ==
    [k \in 1..(HexHashSize \div 2) |->
        (((hex2nibble(hex[2 * k - 1]) * 16) % 256) + hex2nibble(hex[2 * k])) % 256]

\* The record put in front of the result.
Pushed_Front(result, item) == <<item>> \o result

\* Line 133: result_.push_back(hash_count_)
Pushed(result, item) == Append(result, item)

\* Lines 124-147: scan_token, one turn of the loop of parse (lines 31-34).
\* consume_hash (lines 99-122): a failing assert ends the process in a build
\* without NDEBUG and is no code at all in a build with it; advance() at the
\* end of the source throws std::out_of_range from source_.at.
ScanToken ==
    /\ ppc = "scan"
    /\ ~eof
    /\ LET c == PeekAt(current_)
           copy == CopyHex(hex_hash_, current_, 5)
           asserts_hold == copy.i = HexHashSize /\ PeekAt(copy.cur) = COLON
           number == consume_number(copy.cur + 1, [hi |-> 0, lo |-> 0])
       IN  IF c = CR
           THEN /\ current_' = current_ + 1
                /\ UNCHANGED <<result_, hash_count_, hex_hash_, ppc>>
           ELSE IF c = LF
           THEN /\ result_' = Pushed(result_, hash_count_)
                /\ current_' = current_ + 1
                /\ UNCHANGED <<hash_count_, hex_hash_, ppc>>
           ELSE IF is_hexdigit(c)
           THEN \E build \in IF asserts_hold THEN {"NDEBUG"} ELSE {"NDEBUG", "debug"} :
                   IF build = "debug"
                   THEN /\ ppc' = "aborted"
                        /\ hex_hash_' = copy.hex
                        /\ current_' = copy.cur
                        /\ UNCHANGED <<result_, hash_count_>>
                   ELSE IF copy.cur >= Len(source_)
                   THEN /\ ppc' = "threw"
                        /\ hex_hash_' = copy.hex
                        /\ current_' = copy.cur
                        /\ hash_count_' = [hash_count_ EXCEPT !.data = DecodeHex(copy.hex)]
                        /\ UNCHANGED result_
                   ELSE /\ hex_hash_' = copy.hex
                        /\ hash_count_' = [data |-> DecodeHex(copy.hex), count |-> number.num]
                        /\ current_' = number.cur
                        /\ UNCHANGED <<result_, ppc>>
           ELSE /\ current_' = current_ + 1
                /\ UNCHANGED <<result_, hash_count_, hex_hash_, ppc>>
    /\ UNCHANGED <<source_, parse_prefix, body_lines, parse_calls, first_result>>
    /\ UNCHANGED <<readerVars, configVars, outputVars, fileVars, mainVars, engineVars, workerVars, historyVars>>

\* Lines 31 and 35: at the end of the source parse returns result_.
ParseReturn ==
    /\ ppc = "scan"
    /\ eof
    /\ ppc' = "returned"
    /\ UNCHANGED <<source_, current_, result_, hash_count_, hex_hash_, parse_prefix, body_lines>>
    /\ UNCHANGED <<parse_calls, first_result>>
    /\ UNCHANGED <<readerVars, configVars, outputVars, fileVars, mainVars, engineVars, workerVars, historyVars>>

\* Lines 27-30 and 43-47: parse called once more with the same source on a
\* parser that has returned.  reset() empties result_ and rewinds current_;
\* hash_count_ and hex_hash_ stay as the call before left them.
ParseAgain ==
    /\ ppc = "returned"
    /\ parse_calls = 1
    /\ parse_calls' = 2
    /\ first_result' = result_
    /\ result_' = <<>>
    /\ current_' = 0
    /\ ppc' = "scan"
    /\ UNCHANGED <<source_, hash_count_, hex_hash_, parse_prefix, body_lines>>
    /\ UNCHANGED <<readerVars, configVars, outputVars, fileVars, mainVars, engineVars, workerVars, historyVars>>

(***************************************************************************)
(* A reader of the output file: hash_count::read (hash_count.cpp:42-49)    *)
(* called once more while a whole record is left.                          *)
(***************************************************************************)
\* data.size() of sha1_t: half the size of hex_hash_
DigestSize == HexHashSize \div 2

ReadOne ==
    /\ output_file.exists
    /\ read_pos + DigestSize + 4 <= Len(output_file.data)
    /\ loaded' = Append(loaded, read(output_file.data, read_pos, DigestSize))
    /\ read_pos' = read_pos + DigestSize + 4
    /\ UNCHANGED <<parserVars, configVars, outputVars, fileVars, mainVars, engineVars, workerVars, historyVars>>

(***************************************************************************)
(* The program.                                                            *)
(***************************************************************************)
Next ==
    \/ Launch
    \/ CheckFirst
    \/ ForTest
    \/ Construct
    \/ Spawn
    \/ Join
    \/ CheckQuit
    \/ Finalize
    \/ WriteOut
    \/ WriteCheckpoint
    \/ AfterLoop
    \/ Sigint
    \/ \E w \in Workers : WhileTest(w)
    \/ \E w \in Workers : LockQueue(w)
    \/ \E w \in Workers : Pop(w)
    \/ \E w \in Workers : NibbleTest(w)
    \/ \E w \in Workers : Fetch(w)
    \/ \E w \in Workers : LockCollection(w)
    \/ \E w \in Workers : Insert(w)

Spec == Init /\ [][Next]_vars

(***************************************************************************)
(* One downloader taken alone: main constructs it over a range, starts the *)
(* workers and joins them; SIGINT may stop it.  The range starts at 0000   *)
(* or at the last unit and has every length -S allows; the body decodes to *)
(* MaxRecords records or, before a single worker, to none.                 *)
(***************************************************************************)
EngineStart ==
    /\ NoParser
    /\ NoReader
    /\ num_threads \in 1..MaxEngineThreads
    /\ hash_prefix_step \in 0..(MaxHashPrefix - 1)
    /\ last_hash_prefix = MaxHashPrefix
    /\ records_per_response \in IF num_threads = 1 THEN {0, MaxRecords} ELSE {MaxRecords}
    /\ output_file = NoOutput
    /\ checkpoint_file = NoCheckpoint
    /\ pc = "construct"
    /\ first_hash_prefix \in {0, MaxHashPrefix - 1}
    /\ hash_prefix = first_hash_prefix
    /\ do_quit = FALSE
    /\ answer = ""
    /\ handler_installed = FALSE
    /\ hash_queue_ = <<>>
    /\ collection_ = <<>>
    /\ do_quit_ = FALSE
    /\ queue_mutex_ = NoOwner
    /\ collection_mutex_ = NoOwner
    /\ started = 0
    /\ wpc = [w \in Workers |-> "idle"]
    /\ prefix = [w \in Workers |-> NoPrefix]
    /\ nibble = [w \in Workers |-> 0]
    /\ hashes = [w \in Workers |-> <<>>]
    /\ dequeued = <<>>
    /\ request_log = EmptyLog
    /\ late_deq = [w \in Workers |-> FALSE]
    /\ late_req = [w \in Workers |-> 0]

EngineInit == EngineStart /\ NoLogging

EngineNext ==
    \/ Construct
    \/ Spawn
    \/ Join
    \/ Sigint
    \/ \E w \in Workers : WhileTest(w)
    \/ \E w \in Workers : LockQueue(w)
    \/ \E w \in Workers : Pop(w)
    \/ \E w \in Workers : NibbleTest(w)
    \/ \E w \in Workers : Fetch(w)
    \/ \E w \in Workers : LockCollection(w)
    \/ \E w \in Workers : Insert(w)

EngineSpec == EngineInit /\ [][EngineNext]_vars

\* The same downloader over batches of up to MaxBatchUnits units.
BatchInit == EngineInit /\ hash_prefix_step <= MaxBatchUnits

BatchSpec == BatchInit /\ [][EngineNext]_vars

(***************************************************************************)
(* The downloader under fair scheduling.  Every thread that can take a     *)
(* step of its own eventually takes it, main included; cli.Get always      *)
(* returns, and a path that is requested again and again is eventually     *)
(* answered with status 200.  SIGINT may come or not.  The batches have up *)
(* to MaxEngineThreads units, fewer threads than that, and bodies that     *)
(* decode to MaxRecords records.                                           *)
(***************************************************************************)
FairEngineInit ==
    /\ EngineInit
    /\ hash_prefix_step <= MaxEngineThreads
    /\ num_threads < MaxEngineThreads
    /\ records_per_response = MaxRecords

\* cli.Get(path) answered with status 200 and the worker going on
FetchOk(w) == Fetch(w) /\ RequestPath(w) \in request_log'.issued

EngineFairness ==
    /\ WF_vars(Construct)
    /\ WF_vars(Spawn)
    /\ WF_vars(Join)
    /\ \A w \in Workers :
          /\ WF_vars(WhileTest(w))
          /\ WF_vars(LockQueue(w))
          /\ WF_vars(Pop(w))
          /\ WF_vars(NibbleTest(w))
          /\ WF_vars(Fetch(w))
          /\ WF_vars(LockCollection(w))
          /\ WF_vars(Insert(w))

\* Fair scheduling alone: the endpoint may fail a path for ever.
FairSchedulingSpec == FairEngineInit /\ [][EngineNext]_vars /\ EngineFairness

FairEngineSpec ==
    FairEngineInit /\ [][EngineNext]_vars /\ EngineFairness /\ \A w \in Workers : SF_vars(FetchOk(w))

(***************************************************************************)
(* The workers with their logging taken step by step: log, warning and     *)
(* error (hibpdl.cpp:61-77) lock output_mutex_, write and unlock.  -v is   *)
(* not given, given once (the logs of lines 148 and 169) or MaxVerbosity   *)
(* times (every log); every body decodes to MaxRecords records.            *)
(***************************************************************************)
\* a worker about to call log or error, by the line of the call
LogCalls == {"log_empty", "log_quit", "log_hash", "log_error", "log_total", "log_end"}

\* a worker inside log or error, writing with output_mutex_ held
Logging(at) ==
    CASE at = "log_empty" -> "logging_empty"
      [] at = "log_quit" -> "logging_quit"
      [] at = "log_hash" -> "logging_hash"
      [] at = "log_error" -> "logging_error"
      [] at = "log_total" -> "logging_total"
      [] at = "log_end" -> "logging_end"

\* where the worker goes on after the call: lines 108 and 130 return, 148 and
\* 156 are followed by the loop test of line 118, 169 by the end of the block
\* and line 92, 179 by the end of http_worker
AfterLog(at) ==
    CASE at = "logging_empty" -> "returned"
      [] at = "logging_quit" -> "returned"
      [] at = "logging_hash" -> "nibble"
      [] at = "logging_error" -> "nibble"
      [] at = "logging_total" -> "while"
      [] at = "logging_end" -> "returned"

\* std::lock_guard on output_mutex_ can be taken
OutputMutexFree == output_mutex_ = NoOwner

\* Lines 63, 69, 75: const std::lock_guard<std::mutex> lock(output_mutex_)
LogEnter(w) ==
    /\ wpc[w] \in LogCalls
    /\ OutputMutexFree
    /\ output_mutex_' = w
    /\ wpc' = [wpc EXCEPT ![w] = Logging(@)]
    /\ UNCHANGED <<verbosity_, started, prefix, nibble, hashes>>
    /\ mainUnchanged
    /\ UNCHANGED <<parserVars, readerVars, configVars, fileVars, engineVars, historyVars>>

\* The mutex locked by hand in log and never unlocked.
OutputGuardEnd_Kept(w) == w

\* Lines 65, 71, 77: log returns and its guard releases output_mutex_.
OutputGuardEnd(w) == NoOwner

\* Lines 64-65, 70-71, 76-77: the message is written and log returns.  Back in
\* http_worker, the return of line 108 ends the guard of queue_mutex_ and the
\* end of the block of line 171 the guard of collection_mutex_.
LogLeave(w) ==
    /\ wpc[w] \in {Logging(at) : at \in LogCalls}
    /\ output_mutex_' = OutputGuardEnd(w)
    /\ wpc' = [wpc EXCEPT ![w] = AfterLog(@)]
    /\ queue_mutex_' = IF wpc[w] = "logging_empty" THEN NoOwner ELSE queue_mutex_
    /\ collection_mutex_' = IF wpc[w] = "logging_total" THEN CollectionGuardEnd(w) ELSE collection_mutex_
    /\ UNCHANGED <<hash_queue_, collection_, do_quit_>>
    /\ UNCHANGED <<verbosity_, started, prefix, nibble, hashes>>
    /\ mainUnchanged
    /\ UNCHANGED <<parserVars, readerVars, configVars, fileVars, historyVars>>

\* Lines 92 and 173-180: the loop test; a stop leads to the end of
\* http_worker, where verbosity_ > 2 logs.
VerboseWhileTest(w) ==
    /\ wpc[w] = "while"
    /\ wpc' = [wpc EXCEPT ![w] = IF ~do_quit_ THEN "lock_queue"
                                 ELSE IF verbosity_ > 2 THEN "log_end"
                                 ELSE "returned"]
    /\ UNCHANGED <<started, prefix, nibble, hashes>>
    /\ mainUnchanged
    /\ UNCHANGED <<parserVars, readerVars, configVars, outputVars, fileVars, engineVars, historyVars>>

\* Lines 95-111: the lock is taken.  With an empty queue verbosity_ > 2 logs
\* with queue_mutex_ held (lines 99-107) before the return of line 108;
\* otherwise prefix = hash_queue_.front().
VerboseLockQueue(w) ==
    /\ wpc[w] = "lock_queue"
    /\ QueueMutexFree
    /\ IF Len(hash_queue_) = 0
       THEN IF verbosity_ > 2
            THEN /\ wpc' = [wpc EXCEPT ![w] = "log_empty"]
                 /\ queue_mutex_' = w
                 /\ UNCHANGED prefix
            ELSE /\ wpc' = [wpc EXCEPT ![w] = "returned"]
                 /\ UNCHANGED <<queue_mutex_, prefix>>
       ELSE /\ wpc' = [wpc EXCEPT ![w] = "pop"]
            /\ prefix' = [prefix EXCEPT ![w] = Head(hash_queue_)]
            /\ queue_mutex_' = w
    /\ UNCHANGED <<hash_queue_, collection_, do_quit_, collection_mutex_>>
    /\ UNCHANGED <<started, nibble, hashes>>
    /\ mainUnchanged
    /\ UNCHANGED <<parserVars, readerVars, configVars, outputVars, fileVars, historyVars>>

\* Lines 118-131: the loop test and the stop check; verbosity_ > 1 logs
\* before the return.
VerboseNibbleTest(w) ==
    /\ wpc[w] = "nibble"
    /\ wpc' = [wpc EXCEPT ![w] = IF ~NibbleInRange(nibble[w]) THEN "lock_coll"
                                 ELSE IF ~QuitSeen THEN "get"
                                 ELSE IF verbosity_ > 1 THEN "log_quit"
                                 ELSE OnQuit]
    /\ UNCHANGED <<started, prefix, nibble, hashes>>
    /\ mainUnchanged
    /\ UNCHANGED <<parserVars, readerVars, configVars, outputVars, fileVars, engineVars, historyVars>>

\* Lines 135-158: the request.  Status 200: the records go to the buffer, the
\* nibble advances and verbosity_ > 0 logs the first record (lines 146-149);
\* another status is reported by error, whatever the verbosity (151-157); no
\* result at all logs nothing.  The record of the requests is not kept here.
VerboseFetch(w) ==
    /\ wpc[w] = "get"
    /\ \E status \in {200, 429, -1} :
          /\ wpc' = [wpc EXCEPT ![w] = IF status = 200 /\ verbosity_ > 0 THEN "log_hash"
                                       ELSE IF status = 429 THEN "log_error"
                                       ELSE AfterFetch(status)]
          /\ hashes' = [hashes EXCEPT ![w] =
                           IF status = 200
                           THEN AppendResult(@, Response(HashPrefix(w), records_per_response))
                           ELSE @]
          /\ nibble' = [nibble EXCEPT ![w] = NibbleAfter(status, @)]
    /\ UNCHANGED <<started, prefix>>
    /\ mainUnchanged
    /\ UNCHANGED <<engineVars, historyVars>>
    /\ UNCHANGED <<parserVars, readerVars, configVars, outputVars, fileVars>>

\* Lines 163-171: the merge; verbosity_ > 0 logs the total with
\* collection_mutex_ held (lines 164-170); then the guard releases the mutex.
VerboseInsert(w) ==
    /\ wpc[w] = "insert"
    /\ collection_' = Merged(collection_, hashes[w])
    /\ IF verbosity_ > 0
       THEN /\ wpc' = [wpc EXCEPT ![w] = "log_total"]
            /\ UNCHANGED collection_mutex_
       ELSE /\ wpc' = [wpc EXCEPT ![w] = "while"]
            /\ collection_mutex_' = CollectionGuardEnd(w)
    /\ UNCHANGED <<hash_queue_, do_quit_, queue_mutex_>>
    /\ UNCHANGED <<started, prefix, nibble, hashes>>
    /\ mainUnchanged
    /\ UNCHANGED <<parserVars, readerVars, configVars, outputVars, fileVars, historyVars>>

LockInit ==
    /\ EngineStart
    /\ hash_prefix_step <= MaxBatchUnits
    /\ records_per_response = MaxRecords
    /\ output_mutex_ = NoOwner
    /\ verbosity_ \in {0, 1, MaxVerbosity}

LockNext ==
    \/ Construct
    \/ Spawn
    \/ Join
    \/ Sigint
    \/ \E w \in Workers : VerboseWhileTest(w)
    \/ \E w \in Workers : VerboseLockQueue(w)
    \/ \E w \in Workers : Pop(w)
    \/ \E w \in Workers : VerboseNibbleTest(w)
    \/ \E w \in Workers : VerboseFetch(w)
    \/ \E w \in Workers : LockCollection(w)
    \/ \E w \in Workers : VerboseInsert(w)
    \/ \E w \in Workers : LogEnter(w)
    \/ \E w \in Workers : LogLeave(w)

LockSpec == LockInit /\ [][LockNext]_vars

(***************************************************************************)
(* One request taken alone: a worker that has dequeued the unit the        *)
(* constructor queued for a value of the whole key space 0000..ffff, is at *)
(* any inner nibble 0x0..0xf and issues its request (hibpdl.cpp:132-158).  *)
(***************************************************************************)
UnitSamples == {0, 9, 175, 4660, 39664, 43981, 65535}

RequestInit ==
    /\ NoParser
    /\ NoReader
    /\ num_threads = 1
    /\ hash_prefix_step = 1
    /\ last_hash_prefix = MaxHashPrefix
    /\ records_per_response \in {0, MaxRecords}
    /\ output_file = NoOutput
    /\ checkpoint_file = NoCheckpoint
    /\ pc = "join"
    /\ first_hash_prefix = 0
    /\ hash_prefix \in UnitSamples
    /\ do_quit = FALSE
    /\ answer = ""
    /\ handler_installed = TRUE
    /\ hash_queue_ = <<>>
    /\ collection_ = <<>>
    /\ do_quit_ = FALSE
    /\ queue_mutex_ = NoOwner
    /\ collection_mutex_ = NoOwner
    /\ NoLogging
    /\ started = 1
    /\ wpc = [w \in Workers |-> IF w = 1 THEN "get" ELSE "idle"]
    /\ prefix = [w \in Workers |-> IF w = 1 THEN UnitPrefix(hash_prefix) ELSE NoPrefix]
    /\ nibble \in [Workers -> 0..15]
    /\ \A w \in Workers : w # 1 => nibble[w] = 0
    /\ hashes = [w \in Workers |-> <<>>]
    /\ dequeued = <<UnitPrefix(hash_prefix)>>
    /\ request_log = EmptyLog
    /\ late_deq = [w \in Workers |-> FALSE]
    /\ late_req = [w \in Workers |-> 0]

RequestNext == \E w \in Workers : Fetch(w)

RequestSpec == RequestInit /\ [][RequestNext]_vars

(***************************************************************************)
(* finalize taken alone: a downloader whose workers have been joined holds *)
(* any short collection of records, equal digests and equal records        *)
(* included, and main calls finalize (main.cpp:449).                       *)
(***************************************************************************)
SortBytes == {0, 1, 255}

SortRecords == [data : [1..2 -> SortBytes], count : {1, 2}]

FinalizeInit ==
    /\ NoParser
    /\ NoReader
    /\ num_threads = 1
    /\ hash_prefix_step = 1
    /\ last_hash_prefix = MaxHashPrefix
    /\ records_per_response = MaxRecords
    /\ output_file = NoOutput
    /\ checkpoint_file = NoCheckpoint
    /\ pc = "finalize"
    /\ first_hash_prefix = 0
    /\ hash_prefix = 0
    /\ do_quit = FALSE
    /\ answer = ""
    /\ handler_installed = TRUE
    /\ hash_queue_ = <<>>
    /\ \E len \in 0..MaxSortLen : collection_ \in [1..len -> SortRecords]
    /\ do_quit_ = FALSE
    /\ queue_mutex_ = NoOwner
    /\ collection_mutex_ = NoOwner
    /\ NoLogging
    /\ started = 1
    /\ wpc = [w \in Workers |-> IF w = 1 THEN "returned" ELSE "idle"]
    /\ prefix = [w \in Workers |-> NoPrefix]
    /\ nibble = [w \in Workers |-> 0]
    /\ hashes = [w \in Workers |-> <<>>]
    /\ dequeued = <<>>
    /\ request_log = EmptyLog
    /\ late_deq = [w \in Workers |-> FALSE]
    /\ late_req = [w \in Workers |-> 0]

FinalizeNext == Finalize

FinalizeSpec == FinalizeInit /\ [][FinalizeNext]_vars

(***************************************************************************)
(* The parser taken alone: a response_parser built for a prefix parses a   *)
(* body of up to MaxLines lines SUFFIX:COUNT, each ended by CR LF or by LF *)
(* alone; the last line may lack its end.                                  *)
(***************************************************************************)
PrefixSamples == {<<"0", "0", "0", "0", "0">>, <<"F", "9", "A", "0", "C">>}

SuffixLen == 1 + 2 * SuffixPairs

SuffixSamples ==
    {[i \in 1..SuffixLen |-> "0"],
     [i \in 1..SuffixLen |-> IF i % 2 = 1 THEN "F" ELSE "9"],
     [i \in 1..SuffixLen |-> HexUpper[i + 1]]}

CountSamples == {<<"0">>, <<"7">>, <<"4", "2">>}

Lines == [suffix : SuffixSamples, count : CountSamples, eol : {"crlf", "lf", "none"}]

LineText(line) ==
    line.suffix \o <<COLON>> \o line.count \o
        (IF line.eol = "crlf" THEN <<CR, LF>> ELSE IF line.eol = "lf" THEN <<LF>> ELSE <<>>)

RECURSIVE BodyText(_)
BodyText(lines) == IF Len(lines) = 0 THEN <<>> ELSE LineText(Head(lines)) \o BodyText(Tail(lines))

\* what the members hold before anything was stored in them
Indeterminate == {0, 255}

ParserInit ==
    /\ \E p \in PrefixSamples, n \in 0..MaxLines :
         \E lines \in [1..n -> Lines] :
            /\ \A i \in 1..(n - 1) : lines[i].eol # "none"
            /\ parse_prefix = p
            /\ body_lines = lines
            /\ source_ = BodyText(lines)
            /\ hex_hash_ = p \o [i \in 1..(HexHashSize - 5) |-> "?"]
    /\ \E b \in Indeterminate : hash_count_ = [data |-> [k \in 1..(HexHashSize \div 2) |-> b], count |-> 0]
    /\ current_ = 0
    /\ result_ = <<>>
    /\ ppc = "scan"
    /\ parse_calls = 1
    /\ first_result = <<>>
    /\ NoReader
    /\ num_threads = 1
    /\ hash_prefix_step = 1
    /\ last_hash_prefix = MaxHashPrefix
    /\ records_per_response = MaxRecords
    /\ output_file = NoOutput
    /\ checkpoint_file = NoCheckpoint
    /\ pc = "join"
    /\ first_hash_prefix = 0
    /\ hash_prefix = 0
    /\ do_quit = FALSE
    /\ answer = ""
    /\ handler_installed = TRUE
    /\ hash_queue_ = <<>>
    /\ collection_ = <<>>
    /\ do_quit_ = FALSE
    /\ queue_mutex_ = NoOwner
    /\ collection_mutex_ = NoOwner
    /\ NoLogging
    /\ started = 1
    /\ wpc = [w \in Workers |-> IF w = 1 THEN "get" ELSE "idle"]
    /\ prefix = [w \in Workers |-> NoPrefix]
    /\ nibble = [w \in Workers |-> 0]
    /\ hashes = [w \in Workers |-> <<>>]
    /\ dequeued = <<>>
    /\ request_log = EmptyLog
    /\ late_deq = [w \in Workers |-> FALSE]
    /\ late_req = [w \in Workers |-> 0]

ParserNext == ScanToken \/ ParseReturn

ParserSpec == ParserInit /\ [][ParserNext]_vars

(***************************************************************************)
(* consume_number taken alone: the parser on bodies whose lines            *)
(* SUFFIX:COUNT CR LF have a count of no digit at all, of a few digits, or *)
(* of ten digits that stand for a number of 2^32 or more.                  *)
(***************************************************************************)
CountRuns ==
    {<<>>, <<"7">>, <<"1", "6", "9", "0", "9", "0", "6", "0">>,
     <<"4", "2", "9", "4", "9", "6", "7", "2", "9", "6">>,
     <<"4", "2", "9", "4", "9", "6", "7", "3", "0", "3">>,
     <<"9", "9", "9", "9", "9", "9", "9", "9", "9", "9">>}

NumberLines == [suffix : SuffixSamples, count : CountRuns, eol : {"crlf"}]

NumberInit ==
    /\ \E p \in PrefixSamples, n \in 0..MaxLines :
         \E lines \in [1..n -> NumberLines] :
            /\ \A i \in 1..(n - 1) : lines[i].eol # "none"
            /\ parse_prefix = p
            /\ body_lines = lines
            /\ source_ = BodyText(lines)
            /\ hex_hash_ = p \o [i \in 1..(HexHashSize - 5) |-> "?"]
    /\ \E b \in Indeterminate : hash_count_ = [data |-> [k \in 1..(HexHashSize \div 2) |-> b], count |-> 0]
    /\ current_ = 0
    /\ result_ = <<>>
    /\ ppc = "scan"
    /\ parse_calls = 1
    /\ first_result = <<>>
    /\ NoReader
    /\ num_threads = 1
    /\ hash_prefix_step = 1
    /\ last_hash_prefix = MaxHashPrefix
    /\ records_per_response = MaxRecords
    /\ output_file = NoOutput
    /\ checkpoint_file = NoCheckpoint
    /\ pc = "join"
    /\ first_hash_prefix = 0
    /\ hash_prefix = 0
    /\ do_quit = FALSE
    /\ answer = ""
    /\ handler_installed = TRUE
    /\ hash_queue_ = <<>>
    /\ collection_ = <<>>
    /\ do_quit_ = FALSE
    /\ queue_mutex_ = NoOwner
    /\ collection_mutex_ = NoOwner
    /\ NoLogging
    /\ started = 1
    /\ wpc = [w \in Workers |-> IF w = 1 THEN "get" ELSE "idle"]
    /\ prefix = [w \in Workers |-> NoPrefix]
    /\ nibble = [w \in Workers |-> 0]
    /\ hashes = [w \in Workers |-> <<>>]
    /\ dequeued = <<>>
    /\ request_log = EmptyLog
    /\ late_deq = [w \in Workers |-> FALSE]
    /\ late_req = [w \in Workers |-> 0]

NumberSpec == NumberInit /\ [][ParserNext]_vars

(***************************************************************************)
(* The parser on any body: lines that are well formed, empty, too short,   *)
(* with a lower-case letter or without the colon, each ended by CR LF; a   *)
(* parser that has returned is handed the same body once more.             *)
(***************************************************************************)
GoodLines == [kind : {"good"}, suffix : SuffixSamples, sep : {<<COLON>>}, count : {<<"7">>, <<"4", "2">>}]

OddLines ==
    {[kind |-> "blank", suffix |-> <<>>, sep |-> <<>>, count |-> <<>>]}
    \cup [kind : {"short"}, suffix : {SubSeq(x, 1, SuffixLen - 1) : x \in SuffixSamples},
          sep : {<<COLON>>}, count : {<<"7">>}]
    \cup [kind : {"lower"}, suffix : {[i \in 1..SuffixLen |-> IF i = 2 THEN "a" ELSE "1"]},
          sep : {<<COLON>>}, count : {<<"7">>}]
    \cup [kind : {"nosep"}, suffix : {[i \in 1..SuffixLen |-> HexUpper[i + 1]]},
          sep : {<<" ">>}, count : {<<"7">>}]

AnyLineText(line) == line.suffix \o line.sep \o line.count \o <<CR, LF>>

RECURSIVE AnyBodyText(_)
AnyBodyText(lines) ==
    IF Len(lines) = 0 THEN <<>> ELSE AnyLineText(Head(lines)) \o AnyBodyText(Tail(lines))

\* a character of hex_hash_ that nothing was stored in yet
IndeterminateChar(b) == IF b = 0 THEN NUL ELSE "F"

AnyBodyInit ==
    /\ \E p \in PrefixSamples, n \in 0..MaxLines, b \in Indeterminate :
         \E lines \in [1..n -> GoodLines \cup OddLines] :
            /\ parse_prefix = p
            /\ body_lines = lines
            /\ source_ = AnyBodyText(lines)
            /\ hex_hash_ = p \o [i \in 1..(HexHashSize - 5) |-> IndeterminateChar(b)]
            /\ hash_count_ = [data |-> [k \in 1..(HexHashSize \div 2) |-> b], count |-> 0]
    /\ current_ = 0
    /\ result_ = <<>>
    /\ ppc = "scan"
    /\ parse_calls = 1
    /\ first_result = <<>>
    /\ NoReader
    /\ num_threads = 1
    /\ hash_prefix_step = 1
    /\ last_hash_prefix = MaxHashPrefix
    /\ records_per_response = MaxRecords
    /\ output_file = NoOutput
    /\ checkpoint_file = NoCheckpoint
    /\ pc = "join"
    /\ first_hash_prefix = 0
    /\ hash_prefix = 0
    /\ do_quit = FALSE
    /\ answer = ""
    /\ handler_installed = TRUE
    /\ hash_queue_ = <<>>
    /\ collection_ = <<>>
    /\ do_quit_ = FALSE
    /\ queue_mutex_ = NoOwner
    /\ collection_mutex_ = NoOwner
    /\ NoLogging
    /\ started = 1
    /\ wpc = [w \in Workers |-> IF w = 1 THEN "get" ELSE "idle"]
    /\ prefix = [w \in Workers |-> NoPrefix]
    /\ nibble = [w \in Workers |-> 0]
    /\ hashes = [w \in Workers |-> <<>>]
    /\ dequeued = <<>>
    /\ request_log = EmptyLog
    /\ late_deq = [w \in Workers |-> FALSE]
    /\ late_req = [w \in Workers |-> 0]

AnyBodyNext == ScanToken \/ ParseReturn \/ ParseAgain

AnyBodySpec == AnyBodyInit /\ [][AnyBodyNext]_vars

(***************************************************************************)
(* dump and read taken alone: main writes any short collection to a fresh  *)
(* output file (main.cpp:457-462) and a reader reads the file back.        *)
(***************************************************************************)
CodecDigests ==
    {[i \in 1..DigestSize |-> 0], [i \in 1..DigestSize |-> 255], [i \in 1..DigestSize |-> i]}

CodecRecords == [data : CodecDigests, count : {1, 258, 16909060}]

CodecInit ==
    /\ NoParser
    /\ NoReader
    /\ num_threads = 1
    /\ hash_prefix_step = 1
    /\ last_hash_prefix = MaxHashPrefix
    /\ records_per_response = MaxRecords
    /\ output_file = NoOutput
    /\ checkpoint_file = NoCheckpoint
    /\ pc = "write_out"
    /\ first_hash_prefix = 0
    /\ hash_prefix = 0
    /\ do_quit = FALSE
    /\ answer = ""
    /\ handler_installed = TRUE
    /\ hash_queue_ = <<>>
    /\ \E len \in 0..MaxSortLen : collection_ \in [1..len -> CodecRecords]
    /\ do_quit_ = FALSE
    /\ queue_mutex_ = NoOwner
    /\ collection_mutex_ = NoOwner
    /\ NoLogging
    /\ started = 1
    /\ wpc = [w \in Workers |-> IF w = 1 THEN "returned" ELSE "idle"]
    /\ prefix = [w \in Workers |-> NoPrefix]
    /\ nibble = [w \in Workers |-> 0]
    /\ hashes = [w \in Workers |-> <<>>]
    /\ dequeued = <<>>
    /\ request_log = EmptyLog
    /\ late_deq = [w \in Workers |-> FALSE]
    /\ late_req = [w \in Workers |-> 0]

CodecNext == WriteOut \/ ReadOne

CodecSpec == CodecInit /\ [][CodecNext]_vars

(***************************************************************************)
(* Properties.                                                             *)
(***************************************************************************)
NoDuplicates(s) == \A i, j \in 1..Len(s) : i # j => s[i] # s[j]

Range(s) == {s[i] : i \in 1..Len(s)}

\* every started worker has left http_worker
AllReturned == \A w \in 1..started : wpc[w] = "returned"

\* the workers were started and joined, and nobody asked to stop
BatchRanToEnd == pc = "check_quit" /\ AllReturned /\ ~do_quit_ /\ ~do_quit

\* the number of outer units of the current batch
BatchUnits == IF BatchEnd(hash_prefix) > hash_prefix THEN BatchEnd(hash_prefix) - hash_prefix ELSE 0

\* v as 5 upper-case hex digits
FiveHexUpper(v) ==
    <<HexUpper[((v \div 65536) % 16) + 1], HexUpper[((v \div 4096) % 16) + 1],
      HexUpper[((v \div 256) % 16) + 1], HexUpper[((v \div 16) % 16) + 1],
      HexUpper[(v % 16) + 1]>>

\* v as 4 lower-case hex digits
FourHexLower(v) ==
    <<HexLower[((v \div 4096) % 16) + 1], HexLower[((v \div 256) % 16) + 1],
      HexLower[((v \div 16) % 16) + 1], HexLower[(v % 16) + 1]>>

\* C1: no unit is popped from the queue twice and no popped unit is still
\* queued; once all workers of a batch that nobody stopped have returned, the
\* queue is empty and the units popped are exactly the units the constructor
\* queued, each once.
C1_EachUnitDequeuedOnce ==
    /\ NoDuplicates(dequeued)
    /\ Range(dequeued) \cap Range(hash_queue_) = {}
    /\ BatchRanToEnd =>
          /\ hash_queue_ = <<>>
          /\ dequeued = InitialQueue(hash_prefix, BatchEnd(hash_prefix))

C1_Witness ==
    /\ BatchRanToEnd
    /\ started >= 2
    /\ Len(dequeued) > started

\* C2: once all workers of a batch that nobody stopped have returned, the
\* collection holds M * (nibbles per unit) * R records, none of them twice.
C2_CollectionCount ==
    BatchRanToEnd =>
        /\ Len(collection_) = BatchUnits * (MaxNibble + 1) * records_per_response
        /\ NoDuplicates(collection_)

C2_Witness ==
    /\ BatchRanToEnd
    /\ started >= 2
    /\ BatchUnits > started
    /\ records_per_response >= 1
    /\ Len(collection_) = BatchUnits * (MaxNibble + 1) * records_per_response

\* C3: no path is fetched with status 200 twice; once all workers of a batch
\* that nobody stopped have returned, the paths fetched are exactly /range/
\* followed by the 5 hex digits of u * 16 + n, for every unit u of the batch
\* and every nibble n.
C3_PrefixesExactlyOnce ==
    /\ ~request_log.repeated
    /\ BatchRanToEnd =>
          request_log.issued =
              {<<"/", "r", "a", "n", "g", "e", "/">> \o FiveHexUpper(u * 16 + n) :
                  u \in hash_prefix..(hash_prefix + BatchUnits - 1), n \in 0..MaxNibble}

C3_Witness ==
    /\ BatchRanToEnd
    /\ hash_prefix > 0
    /\ Cardinality(request_log.issued) = MaxNibble + 1

\* C4: a worker that popped its unit after stop() never gets past the stop
\* check to a fetch, and no worker issues more than one request after stop().
C4_StopHonoured ==
    \A w \in Workers :
        /\ late_req[w] <= 1
        /\ late_deq[w] => wpc[w] # "get"

C4_Witness ==
    \E w, v \in Workers :
        /\ late_req[w] = 1
        /\ late_deq[v]
        /\ wpc[w] = "returned"
        /\ wpc[v] = "returned"

\* a stop request is pending and the loop has not yet left for the exit
StopPending ==
    do_quit /\ pc \in {"for_test", "construct", "spawn", "join", "check_quit", "after_loop"}

\* C5: from a stop request on, the run only goes on to its exit: it reaches
\* neither finalize nor the two writes, and no step changes the output file
\* or the checkpoint file.
C5_StopLeavesFilesAlone ==
    [][StopPending =>
          /\ output_file' = output_file
          /\ checkpoint_file' = checkpoint_file
          /\ StopPending' \/ pc' \in {"exit", "crashed"}]_vars

C5_Witness ==
    /\ pc = "exit"
    /\ do_quit
    /\ hash_prefix > first_hash_prefix
    /\ hash_prefix < last_hash_prefix
    /\ checkpoint_file.exists
    /\ Len(output_file.data) > 0

\* the run is inside a batch
InBatch == pc \in {"construct"} \cup EngineStates

\* the run left the loop by the break of line 439
InterruptedRun == pc \in {"after_loop", "exit"} /\ do_quit /\ hash_prefix < last_hash_prefix

\* While a batch is under way, and after it was interrupted, a checkpoint on
\* disk states s-e where e is the start of that batch and s is one step before.
C6_CheckpointRange ==
    ((InBatch \/ InterruptedRun) /\ checkpoint_file.exists) =>
        checkpoint_file.range =
            FourHexLower(hash_prefix - hash_prefix_step) \o <<"-">> \o FourHexLower(hash_prefix)

\* A run started after an interrupted one that answers y to the prompt starts
\* from the start of the interrupted batch, and the loop starts at the prefix
\* the run starts from.
C6_ResumeStep ==
    /\ (InterruptedRun /\ pc = "exit" /\ checkpoint_file.exists /\ answer' = "y") =>
          (pc' = "check_first" /\ first_hash_prefix' = hash_prefix)
    /\ (pc = "check_first" /\ pc' = "for_test") => hash_prefix' = first_hash_prefix

OutputRecords ==
    LET size == Len(dump([data |-> Digest(<<"0", "0", "0", "0", "0">>, 1), count |-> 1]))
    IN  [i \in 1..(Len(output_file.data) \div size) |->
            SubSeq(output_file.data, (i - 1) * size + 1, i * size)]

\* the bytes of record k of inner prefix n of unit u
RecordBytes(u, n, k) ==
    dump(Response(Append(UnitPrefix(u), nibble2hex(n)), records_per_response)[k])

\* how often a record is in the output file
Occurrences(bytes) == Cardinality({i \in 1..Len(OutputRecords) : OutputRecords[i] = bytes})

\* C7: when a run has worked the loop to its end, the output file holds every
\* record of every unit of the key space exactly once.
C7_EveryUnitOnce ==
    (pc = "exit" /\ hash_prefix >= last_hash_prefix) =>
        /\ \A u \in 0..(MaxHashPrefix - 1), n \in 0..MaxNibble, k \in 1..records_per_response :
              Occurrences(RecordBytes(u, n, k)) = 1
        /\ Len(OutputRecords) = MaxHashPrefix * (MaxNibble + 1) * records_per_response

\* C8: a checkpoint stating s-e implies that the output file holds every
\* record of the units of [s, e).
C8_CheckpointImpliesRecords ==
    checkpoint_file.exists =>
        \A s0 \in 0..(MaxHashPrefix - 1), e0 \in 0..(2 * MaxHashPrefix) :
            checkpoint_file.range = FourHexLower(s0) \o <<"-">> \o FourHexLower(e0) =>
                \A u \in s0..(Min(e0, MaxHashPrefix) - 1), n \in 0..MaxNibble,
                   k \in 1..records_per_response :
                      Occurrences(RecordBytes(u, n, k)) >= 1

\* a step removes the checkpoint file
CheckpointRemoved == checkpoint_file.exists /\ ~checkpoint_file'.exists

\* C9 as stated: the checkpoint file is removed only by the end of a run that
\* worked the whole key space without a stop request.
C9_RemovedOnlyAtEnd ==
    [][CheckpointRemoved =>
          (pc = "after_loop" /\ ~do_quit /\ hash_prefix >= last_hash_prefix)]_vars

\* C9 amended: the checkpoint file is removed by the end of a run only when
\* the loop was worked to its end and no stop request was seen; the only
\* other removals are at start-up, by the answer r to the resume prompt and by
\* a start from 0000.
C9_RemovedAtEndOrStartup ==
    [][CheckpointRemoved =>
          \/ pc = "after_loop" /\ ~do_quit /\ hash_prefix >= last_hash_prefix
          \/ pc \in {"start"} \cup Terminal /\ answer' = "r"
          \/ pc = "check_first" /\ first_hash_prefix = 0]_vars

C9_Witness ==
    /\ pc = "exit"
    /\ ~do_quit
    /\ hash_prefix >= last_hash_prefix
    /\ hash_prefix_step > 0
    /\ hash_prefix_step < last_hash_prefix
    /\ ~checkpoint_file.exists
    /\ Len(output_file.data) > 0

\* how often x is in s
CountIn(x, s) == Cardinality({i \in 1..Len(s) : s[i] = x})

IsPermutation(a, b) ==
    /\ Len(a) = Len(b)
    /\ \A x \in Range(a) \cup Range(b) : CountIn(x, a) = CountIn(x, b)

\* a is not after b in the byte-wise order of digests of one length
BytesLeq(a, b) ==
    \/ a = b
    \/ \E i \in 1..Len(a) : a[i] < b[i] /\ \A j \in 1..(i - 1) : a[j] = b[j]

\* C10: finalize leaves the records it found, each as often as before, and
\* no record's digest is after the digest of the record that follows it.
C10_FinalizeSortsPermutation ==
    [][(pc = "finalize" /\ pc' = "write_out") =>
          /\ IsPermutation(collection_, collection_')
          /\ \A i \in 1..(Len(collection_') - 1) :
                BytesLeq(collection_'[i].data, collection_'[i + 1].data)]_vars

C10_Witness ==
    /\ pc = "write_out"
    /\ Len(collection_) = MaxSortLen
    /\ collection_[1].data[1] = collection_[2].data[1]
    /\ collection_[1].data[2] < collection_[2].data[2]
    /\ collection_[1].count > collection_[2].count

\* the value of a hex digit
HexDigitValue(c) == (CHOOSE i \in 1..16 : HexUpper[i] = c) - 1

\* the bytes the 2 * n hex digits of h stand for, high nibble first
BytesOfHex(h) ==
    [k \in 1..(Len(h) \div 2) |-> 16 * HexDigitValue(h[2 * k - 1]) + HexDigitValue(h[2 * k])]

\* the number a run of decimal digits stands for
RECURSIVE DecimalValue(_)
DecimalValue(digits) ==
    IF Len(digits) = 0 THEN 0
    ELSE 10 * DecimalValue(SubSeq(digits, 1, Len(digits) - 1)) + HexDigitValue(digits[Len(digits)])

\* the record line i of the body stands for
ExpectedRecord(i) ==
    [data |-> BytesOfHex(parse_prefix \o body_lines[i].suffix),
     count |-> DecimalValue(body_lines[i].count)]

\* C11: the record emitted for a line SUFFIX:COUNT CR LF has the digest that
\* the hex digits of the prefix followed by the suffix stand for, pair by
\* pair and high nibble first, and the count the decimal digits stand for.
C11_LineDecoded ==
    \A i \in 1..Len(result_) :
        /\ i <= Len(body_lines)
        /\ body_lines[i].eol = "crlf" => result_[i] = ExpectedRecord(i)

C11_Witness ==
    /\ ppc = "returned"
    /\ \E i \in 1..Len(result_) :
          /\ body_lines[i].eol = "crlf"
          /\ parse_prefix[1] = "F"
          /\ result_[i].data[1] = 249
          /\ result_[i].data[2] = 160
          /\ result_[i].data[HexHashSize \div 2] = 159
          /\ result_[i].count = 42

\* C12: for a body of k lines that all end with CR LF parse returns k
\* records, and record i is the decoding of line i.
C12_OneRecordPerLine ==
    (ppc = "returned" /\ \A i \in 1..Len(body_lines) : body_lines[i].eol = "crlf") =>
        /\ Len(result_) = Len(body_lines)
        /\ \A i \in 1..Len(result_) : result_[i] = ExpectedRecord(i)

C12_Witness ==
    /\ ppc = "returned"
    /\ Len(body_lines) = MaxLines
    /\ \A i \in 1..Len(body_lines) : body_lines[i].eol = "crlf"
    /\ Len(result_) = MaxLines
    /\ result_[1].data # result_[MaxLines].data
    /\ result_[1].count # result_[MaxLines].count

\* C13: parse returns as many records as the body has lines, whether the
\* last line has an end or not.
C13_LastLineKept ==
    ppc = "returned" => Len(result_) = Len(body_lines)

\* the bytes of the file that belong to record i, for records of n bytes
FileBlock(i, n) == SubSeq(output_file.data, (i - 1) * n + 1, i * n)

\* C14: the file written from a collection has DigestSize + 4 bytes per
\* record, the digest followed by the count with its most significant byte
\* first; the records read back are the records of the collection, in order,
\* and all of them once the end of the file is reached.
C14_DumpReadRoundTrip ==
    output_file.exists =>
        LET n == DigestSize + 4
        IN  /\ Len(output_file.data) = n * Len(collection_)
            /\ \A i \in 1..Len(collection_) :
                  /\ SubSeq(FileBlock(i, n), 1, DigestSize) = collection_[i].data
                  /\ collection_[i].count =
                        FileBlock(i, n)[DigestSize + 1] * 16777216
                        + FileBlock(i, n)[DigestSize + 2] * 65536
                        + FileBlock(i, n)[DigestSize + 3] * 256
                        + FileBlock(i, n)[DigestSize + 4]
            /\ read_pos = n * Len(loaded)
            /\ Len(loaded) <= Len(collection_)
            /\ loaded = SubSeq(collection_, 1, Len(loaded))
            /\ read_pos = Len(output_file.data) => loaded = collection_

C14_Witness ==
    /\ output_file.exists
    /\ read_pos = Len(output_file.data)
    /\ Len(loaded) = MaxSortLen
    /\ loaded[1].count = 16909060
    /\ loaded[1].data # loaded[MaxSortLen].data
    /\ loaded[1].count # loaded[MaxSortLen].count

\* the bytes of a sequence of records: each digest, then the count with its
\* most significant byte first
RECURSIVE BytesOfRecords(_)
BytesOfRecords(c) ==
    IF Len(c) = 0 THEN <<>>
    ELSE Head(c).data
         \o <<(Head(c).count \div 16777216) % 256, (Head(c).count \div 65536) % 256,
              (Head(c).count \div 256) % 256, Head(c).count % 256>>
         \o BytesOfRecords(Tail(c))

\* C15: the bytes of the output file change only when a batch that completed
\* is written, and then the bytes of its records, in ascending digest order
\* and digest size + 4 bytes each, are added at the end; the only other
\* change is the removal of the file at the start of a run.
C15_OutputIsConcatenation ==
    [][output_file'.data # output_file.data =>
          \/ /\ pc = "write_out"
             /\ \A i \in 1..(Len(collection_) - 1) :
                   BytesLeq(collection_[i].data, collection_[i + 1].data)
             /\ output_file'.data = output_file.data \o BytesOfRecords(collection_)
             /\ Len(output_file'.data) =
                   Len(output_file.data) + (Len(collection_[1].data) + 4) * Len(collection_)
          \/ /\ pc \in {"start"} \cup Terminal
             /\ output_file'.data = <<>>]_vars

C15_Witness ==
    /\ pc = "write_checkpoint"
    /\ hash_prefix > first_hash_prefix
    /\ Len(collection_) >= 2
    /\ Len(output_file.data) > Len(BytesOfRecords(collection_))
    /\ SubSeq(output_file.data,
              Len(output_file.data) - Len(BytesOfRecords(collection_)) + 1,
              Len(output_file.data)) = BytesOfRecords(collection_)

\* C16: a downloader is never at work over bounds that violate
\* first_prefix < last_prefix <= MaxHashPrefix: its construction would have
\* failed.
C16_InvalidRangeRejected ==
    EngineAlive =>
        /\ hash_prefix < BatchEnd(hash_prefix)
        /\ BatchEnd(hash_prefix) <= MaxHashPrefix

\* the path of the request for inner prefix n of the unit worker w holds
PathOf(w, n) == <<"/", "r", "a", "n", "g", "e", "/">> \o prefix[w] \o <<HexUpper[n + 1]>>

\* While a worker is at a unit its buffer holds the records of the inner
\* prefixes before its nibble, and no path was answered 200 twice.
C17_BufferMatchesNibble ==
    /\ ~request_log.repeated
    /\ \A w \in Workers :
          wpc[w] \in {"nibble", "get", "lock_coll", "insert"} =>
              Len(hashes[w]) = nibble[w] * records_per_response

\* What a request of worker w does: nothing but stay at the same inner prefix
\* of the same unit, or advance the nibble by one with the records appended
\* and the path answered 200 for the first time.
C17_RequestStep ==
    \A w \in Workers :
        (wpc[w] = "get" /\ wpc'[w] \notin {"get", "idle"}) =>
            \/ /\ nibble'[w] = nibble[w]
               /\ prefix'[w] = prefix[w]
               /\ hashes'[w] = hashes[w]
               /\ request_log'.issued = request_log.issued
            \/ /\ nibble'[w] = nibble[w] + 1
               /\ prefix'[w] = prefix[w]
               /\ Len(hashes'[w]) = Len(hashes[w]) + records_per_response
               /\ SubSeq(hashes'[w], 1, Len(hashes[w])) = hashes[w]
               /\ PathOf(w, nibble[w]) \notin request_log.issued
               /\ request_log'.issued = request_log.issued \cup {PathOf(w, nibble[w])}

\* C17: a request that is not answered with 200 leaves the worker at the
\* same inner prefix with its buffer as it was, so its next request is for
\* that prefix again; only an answer 200 advances the nibble and appends
\* records, and each prefix contributes its records once.
C17_RetrySamePrefix == []C17_BufferMatchesNibble /\ [][C17_RequestStep]_vars

C17_Witness ==
    /\ BatchRanToEnd
    /\ request_log.failed
    /\ BatchUnits >= 2
    /\ records_per_response >= 1
    /\ Cardinality(request_log.issued) = BatchUnits * (MaxNibble + 1)
    /\ Len(collection_) = BatchUnits * (MaxNibble + 1) * records_per_response

\* C18: a worker returns only from the dequeue with the queue empty or from
\* a stop check with the stop flag set; the loop is left by its break only
\* after a stop request; the process ends inside a batch only on a body
\* answered with 200 that holds no record, never on another answer.
C18_FailuresEndNothing ==
    [][/\ \A w \in Workers :
             (wpc[w] # "returned" /\ wpc'[w] = "returned") =>
                 \/ wpc[w] = "lock_queue" /\ hash_queue_ = <<>>
                 \/ wpc[w] \in {"while", "nibble"} /\ do_quit_
       /\ (pc = "check_quit" /\ pc' = "after_loop") => do_quit
       /\ (EngineAlive /\ pc' = "crashed") => records_per_response = 0]_vars

C18_Witness ==
    /\ pc = "write_checkpoint"
    /\ request_log.failed
    /\ ~do_quit
    /\ Len(collection_) = BatchUnits * (MaxNibble + 1) * records_per_response
    /\ Len(collection_) > 0

\* C19 as stated: the records in the buffer of a worker that has returned are
\* in the shared collection.
C19_StoppedWorkerMerged ==
    \A w \in Workers :
        wpc[w] = "returned" => Range(hashes[w]) \subseteq Range(collection_)

\* the stop check of the inner loop made worker w return inside a unit
StoppedInUnit(w) == wpc[w] = "returned" /\ Len(hashes[w]) > 0 /\ nibble[w] <= MaxNibble

\* A worker that returned inside a unit has left none of its records in the
\* collection.
C19_PartialUnitDropped ==
    \A w \in Workers :
        StoppedInUnit(w) => Range(hashes[w]) \cap Range(collection_) = {}

\* The collection changes only by the merge of a worker that holds the
\* collection mutex and has fetched every inner prefix of its unit.
C19_MergeStep ==
    collection_' # collection_ =>
        \/ collection_' = <<>>
        \/ \E w \in Workers :
              /\ wpc[w] = "insert"
              /\ collection_mutex_ = w
              /\ nibble[w] = MaxNibble + 1
              /\ collection_' = collection_ \o hashes[w]

\* C19 amended: a worker merges its buffer under the collection mutex each
\* time it has fetched every inner prefix of a unit; a worker that sees the
\* stop flag returns without a merge and the records of the unit it was at
\* are not in the collection.
C19_MergePerCompleteUnit == []C19_PartialUnitDropped /\ [][C19_MergeStep]_vars

C19_Witness ==
    \E w \in Workers :
        /\ StoppedInUnit(w)
        /\ Len(collection_) > 0
        /\ Range(hashes[w]) \cap Range(collection_) = {}

\* C20: no worker holds both mutexes; a worker holds the queue mutex only
\* between front() and pop() and the collection mutex only at its merge.
C20_NeverBothMutexes ==
    \A w \in Workers :
        /\ ~(queue_mutex_ = w /\ collection_mutex_ = w)
        /\ queue_mutex_ = w => wpc[w] = "pop"
        /\ collection_mutex_ = w => wpc[w] = "insert"

C20_Witness ==
    \E w, v \in Workers :
        /\ w # v
        /\ queue_mutex_ = w
        /\ collection_mutex_ = v

\* the threads that run or ran http_worker on the current downloader
Threads == {w \in Workers : wpc[w] # "idle"}

\* C21: the number of threads started for a batch is the smaller of the -t
\* value and the number of units of the batch, so it is never more than the
\* number of units; no thread runs before the start.
C21_ThreadsAtMostUnits ==
    /\ pc \in {"construct", "spawn"} => Threads = {}
    /\ pc \in {"join", "check_quit"} =>
          /\ Cardinality(Threads) = started
          /\ started <= BatchUnits
          /\ started <= num_threads
          /\ started = BatchUnits \/ started = num_threads

C21_Witness ==
    /\ pc = "join"
    /\ num_threads >= 2
    /\ BatchUnits = 1
    /\ Cardinality(Threads) = 1

\* From the end of the join to the end of the batch every thread that was
\* started has returned, no other thread runs and no mutex is held.
C22_WorkersGone ==
    pc \in {"check_quit", "finalize", "write_out", "write_checkpoint"} =>
        /\ \A w \in Workers : wpc[w] = (IF w <= started THEN "returned" ELSE "idle")
        /\ collection_mutex_ = NoOwner
        /\ queue_mutex_ = NoOwner

\* While the collection is sorted it is only reordered, and while it is
\* written it does not change.
C22_NoMergeStep ==
    /\ pc = "finalize" => IsPermutation(collection_, collection_')
    /\ pc = "write_out" => collection_' = collection_

\* C22: finalize is called only after every thread started for the
\* downloader has returned and was joined; nothing is merged into the
\* collection while or after it is sorted and written.
C22_FinalizeAfterJoin == []C22_WorkersGone /\ [][C22_NoMergeStep]_vars

C22_Witness ==
    /\ pc = "write_out"
    /\ started >= 1
    /\ dequeued # <<>>
    /\ Len(collection_) >= 2

\* the 4 upper-case hex digits of the outer unit v
UnitText(v) == SubSeq(FiveHexUpper(v), 2, 5)

\* the exclusive end of the batch that starts at start
ExclusiveEnd(start) ==
    IF start + hash_prefix_step < MaxHashPrefix THEN start + hash_prefix_step ELSE MaxHashPrefix

\* What the loop does with its batches, whatever its bound: the first batch
\* starts at first_hash_prefix, a batch is the units from its start to
\* start + step or to the end of the key space, the start advances by step,
\* which is not before the end of the batch, and the loop is left from
\* inside a batch only after a stop request.
C23_BatchSteps ==
    /\ (pc = "check_first" /\ pc' = "for_test") => hash_prefix' = first_hash_prefix
    /\ (pc = "construct" /\ pc' = "spawn") =>
          /\ Len(hash_queue_') = ExclusiveEnd(hash_prefix) - hash_prefix
          /\ \A k \in 1..Len(hash_queue_') : hash_queue_'[k] = UnitText(hash_prefix + k - 1)
    /\ (pc = "write_checkpoint" /\ pc' = "for_test") =>
          /\ hash_prefix' = hash_prefix + hash_prefix_step
          /\ hash_prefix' >= ExclusiveEnd(hash_prefix)
          /\ hash_prefix' < last_hash_prefix => hash_prefix' = ExclusiveEnd(hash_prefix)
    /\ (pc \in EngineStates /\ pc' \notin Terminal \cup {"for_test"}) =>
          hash_prefix' = hash_prefix
    /\ (pc = "check_quit" /\ pc' = "after_loop") => do_quit

\* C23 as stated: the loop goes on until the start is at or past the end of
\* the key space.
C23_UntilMaxPrefix ==
    [][/\ C23_BatchSteps
       /\ (pc = "for_test" /\ pc' = "after_loop") => hash_prefix >= MaxHashPrefix
       /\ (pc = "for_test" /\ pc' = "construct") => hash_prefix < MaxHashPrefix]_vars

\* C23 amended: the loop goes on until the start is at or past
\* last_hash_prefix, the value of -L, which is the end of the key space when
\* the option is not given and below it otherwise.
C23_UntilLastPrefix ==
    [][/\ C23_BatchSteps
       /\ last_hash_prefix <= MaxHashPrefix
       /\ (pc = "for_test" /\ pc' = "after_loop") => hash_prefix >= last_hash_prefix
       /\ (pc = "for_test" /\ pc' = "construct") => hash_prefix < last_hash_prefix]_vars

C23_Witness ==
    /\ pc = "exit"
    /\ ~do_quit
    /\ hash_prefix_step >= 1
    /\ hash_prefix >= 2 * hash_prefix_step
    /\ last_hash_prefix < MaxHashPrefix
    /\ hash_prefix >= last_hash_prefix
    /\ hash_prefix < MaxHashPrefix
    /\ Len(output_file.data) > 0

\* C24: a checkpoint written by a run with worker threads states the range
\* of a batch: from a start s to the exclusive end of the units of the batch
\* that starts at s, which is not past the end of the key space.
C24_CheckpointIsBatchRange ==
    (num_threads >= 1 /\ checkpoint_file.exists) =>
        \E s \in 0..(MaxHashPrefix - 1) :
            /\ ExclusiveEnd(s) <= MaxHashPrefix
            /\ checkpoint_file.range =
                  FourHexLower(s) \o <<"-">> \o FourHexLower(ExclusiveEnd(s))

\* C25: a second call of parse with the same body, of well-formed and empty
\* lines, on the same parser returns what the first call returned.
C25_SecondParseSame ==
    (/\ ppc = "returned"
     /\ parse_calls = 2
     /\ \A i \in 1..Len(body_lines) : body_lines[i].kind \in {"good", "blank"}) =>
        result_ = first_result

\* C26: no record is emitted for a line whose suffix is too short, holds a
\* character that is no upper-case hex digit, or is not followed by a colon:
\* the result never reaches as far as such a line.
C26_MalformedNeverEmitted ==
    \A i \in 1..Len(body_lines) :
        body_lines[i].kind \in {"short", "lower", "nosep"} => Len(result_) < i

UpperHexDigits == {"0", "1", "2", "3", "4", "5", "6", "7", "8", "9", "A", "B", "C", "D", "E", "F"}

\* p is /range/ followed by 5 upper-case hex digits
WellFormedPath(p) ==
    /\ Len(p) = 12
    /\ SubSeq(p, 1, 7) = <<"/", "r", "a", "n", "g", "e", "/">>
    /\ \A k \in 8..12 : p[k] \in UpperHexDigits

\* C27: the path of the request a worker is about to issue, and every path
\* that was answered, is /range/ followed by 5 upper-case hex digits: the 4
\* digits of the unit the worker dequeued and the digit of its nibble.
C27_PathFiveUpperHex ==
    /\ \A p \in request_log.issued : WellFormedPath(p)
    /\ \A w \in Workers :
          wpc[w] = "get" =>
              /\ WellFormedPath(RequestPath(w))
              /\ SubSeq(RequestPath(w), 8, 11) = UnitText(hash_prefix)
              /\ SubSeq(RequestPath(w), 8, 11) = dequeued[Len(dequeued)]
              /\ RequestPath(w)[12] = FiveHexUpper(nibble[w])[5]

C27_Witness ==
    /\ <<"/", "r", "a", "n", "g", "e", "/", "A", "B", "C", "D", "F">> \in request_log.issued
    /\ \E w \in Workers : wpc[w] = "nibble" /\ nibble[w] = 16 /\ Len(hashes[w]) > 0

\* every thread has returned, the queue is empty and every record of every
\* inner prefix of every unit of the batch is in the collection
C28_Drained ==
    /\ pc \in {"join", "check_quit"}
    /\ AllReturned
    /\ hash_queue_ = <<>>
    /\ Len(collection_) = BatchUnits * (MaxNibble + 1) * records_per_response
    /\ \A u \in hash_prefix..(hash_prefix + BatchUnits - 1), n \in 0..MaxNibble,
          k \in 1..records_per_response :
             [data |-> BytesOfHex(FiveHexUpper(u * 16 + n) \o <<HexUpper[k + 1]>>),
              count |-> k] \in Range(collection_)

\* A worker that has returned from a unit without a stop got status 200 for
\* every inner prefix of that unit.
C28_ReturnedMeansAnswered ==
    \A w \in Workers :
        (wpc[w] = "returned" /\ ~do_quit_ /\ prefix[w] # NoPrefix) =>
            \A n \in 0..MaxNibble : PathOf(w, n) \in request_log.issued

\* C28: when every path is eventually answered with 200 and nobody asks to
\* stop, all threads eventually have returned with the queue empty and every
\* record of the batch in the collection; and a worker never returns from a
\* unit, without a stop, before each of its paths was answered with 200.
C28_DrainsUnlessStopped ==
    /\ []C28_ReturnedMeansAnswered
    /\ <>(do_quit_ \/ C28_Drained)

C28_Witness ==
    /\ C28_Drained
    /\ ~do_quit_
    /\ request_log.failed
    /\ started >= 1
    /\ BatchUnits >= 2
    /\ records_per_response >= 1

\* A worker reaches a request only from the loop test of line 118, where it
\* has read the stop flag and found it clear.
C29_AttemptStep ==
    \A w \in Workers :
        (wpc[w] # "get" /\ wpc'[w] = "get") => (wpc[w] = "nibble" /\ ~do_quit_)

\* main has started the threads and every one of them has returned
C29_WorkersBack == pc # "spawn" /\ AllReturned

\* C29: under fair scheduling, with requests that return but may fail for
\* ever, once stop() was called every started thread eventually has returned;
\* and no request is attempted without a read of the stop flag just before.
C29_StopLeadsToReturn ==
    /\ [][C29_AttemptStep]_vars
    /\ do_quit_ ~> C29_WorkersBack

\* Stopped while retrying: a thread returned from inside a unit after a
\* request that was issued after the stop and failed.
C29_Witness ==
    /\ do_quit_
    /\ C29_WorkersBack
    /\ request_log.failed
    /\ \E w \in 1..started :
          /\ late_req[w] = 1
          /\ nibble[w] <= MaxNibble
          /\ PathOf(w, nibble[w]) \notin request_log.issued

\* the records of the responses to the inner prefixes of outer unit u: the
\* digest bytes are the two bytes of u, then the inner nibble and the suffix
UnitRecords(u) ==
    {[data |-> <<u \div 256, u % 256, 16 * n + k>>, count |-> k] :
        n \in 0..MaxNibble, k \in 1..records_per_response}

\* Of each outer unit the collection holds every record or none, and it
\* holds nothing else.
C30_WholeUnits ==
    LET visible == Range(collection_)
        whole == {u \in 0..(MaxHashPrefix - 1) : UnitRecords(u) \subseteq visible}
    IN  /\ \A u \in 0..(MaxHashPrefix - 1) :
              u \in whole \/ UnitRecords(u) \cap visible = {}
        /\ visible \subseteq UNION {UnitRecords(u) : u \in whole}

\* While the downloader of a batch exists and the process runs, the
\* collection does not get shorter.
C30_SizeStep ==
    (EngineAlive /\ pc' \in EngineStates) => Len(collection_') >= Len(collection_)

\* C30: the collection holds each outer unit whole or not at all, so the
\* records of a unit that is being fetched are not in it, and its size never
\* decreases during a batch.
C30_UnitsAllOrNothing == []C30_WholeUnits /\ [][C30_SizeStep]_vars

\* One unit is merged while a thread holds part of the next one in its
\* buffer.
C30_Witness ==
    /\ records_per_response >= 1
    /\ UnitRecords(hash_prefix) \subseteq Range(collection_)
    /\ \E w \in Workers :
          /\ wpc[w] \in {"nibble", "get"}
          /\ prefix[w] = UnitPrefix(hash_prefix + 1)
          /\ nibble[w] \in 1..MaxNibble
          /\ Len(hashes[w]) = nibble[w] * records_per_response
          /\ UnitRecords(hash_prefix + 1) \cap Range(collection_) = {}

\* What a request does when its body decodes to no record: it fails and the
\* worker stays at the nibble, or it is answered and the worker goes on to the
\* next nibble with its buffer as it was; the process lives on.
C31_EmptyResultStep ==
    \A w \in Workers :
        (wpc[w] = "get" /\ wpc'[w] # "get" /\ records_per_response = 0) =>
            /\ pc' # "crashed"
            /\ hashes'[w] = hashes[w]
            /\ nibble'[w] \in {nibble[w], nibble[w] + 1}
            /\ request_log'.issued # request_log.issued => nibble'[w] = nibble[w] + 1

\* C31: a 200 response that decodes to zero records appends nothing and
\* advances the nibble, and the first element of the empty result is never
\* read, so that nothing undefined happens to the process.
C31_EmptyResultSkipped == [][C31_EmptyResultStep]_vars

\* the lines of the body that hold a hash
HashLines == {i \in 1..Len(body_lines) : body_lines[i].kind # "blank"}

\* C32: for a body of well-formed and empty lines parse returns as many
\* records as there are lines with a hash: the LF of an empty line emits
\* nothing and no line's record is emitted twice.
C32_RecordsAreHashLines ==
    (/\ ppc = "returned"
     /\ parse_calls = 1
     /\ \A i \in 1..Len(body_lines) : body_lines[i].kind \in {"good", "blank"}) =>
        /\ Len(result_) = Cardinality(HashLines)
        /\ \A i, j \in 1..Len(result_) : i # j => result_[i] # result_[j] \/ body_lines[i] = body_lines[j]

\* The number a run of decimal digits stands for, without any wrap, as the
\* quotient and the remainder of the division by 2^16.
RECURSIVE DecimalQuotRem(_)
DecimalQuotRem(digits) ==
    IF Len(digits) = 0 THEN [q |-> 0, r |-> 0]
    ELSE LET front == DecimalQuotRem(SubSeq(digits, 1, Len(digits) - 1))
             low == front.r * 10 + HexDigitValue(digits[Len(digits)])
         IN  [q |-> front.q * 10 + (low \div 65536), r |-> low % 65536]

\* that number modulo 2^32
DecimalMod32(digits) == (DecimalQuotRem(digits).q % 65536) * 65536 + DecimalQuotRem(digits).r

\* C33: the count of the record emitted for a line is the decimal value of
\* the digits after the colon reduced modulo 2^32; no digit gives 0.
C33_CountWrapsAt32Bits ==
    \A i \in 1..Len(result_) :
        /\ i <= Len(body_lines)
        /\ result_[i].count = DecimalMod32(body_lines[i].count)
        /\ body_lines[i].count = <<>> => result_[i].count = 0

\* One body with a count of 2^32 + 7, read as 7, and a count without digits.
C33_Witness ==
    /\ ppc = "returned"
    /\ Len(result_) = 2
    /\ body_lines[1].count = <<"4", "2", "9", "4", "9", "6", "7", "3", "0", "3">>
    /\ result_[1].count = 7
    /\ body_lines[2].count = <<>>
    /\ result_[2].count = 0

\* A request that returns while main's stop flag is set belongs to the
\* downloader that was stopped, not to one constructed after the stop.
C34_RequestStep ==
    \A w \in Workers :
        (do_quit /\ wpc[w] = "get" /\ wpc'[w] # "get") => do_quit_

\* C34: once a stop was requested, at whatever point of the run, no worker
\* of a downloader constructed afterwards issues a request.
C34_StopPreventsLaterBatches == [][C34_RequestStep]_vars

\* While the handler is installed and the process runs, the downloader the
\* handler refers to exists.
C35_HandlerHasEngine == (handler_installed /\ pc \notin Terminal) => EngineAlive

\* The handler sets do_quit only after stop() on a downloader that exists.
C35_HandlerStep == (~do_quit /\ do_quit') => EngineAlive

\* C35: whenever the SIGINT handler can run, the downloader it calls stop()
\* on is alive; stop() is never invoked on a destroyed downloader.
C35_StopOnLiveEngine == []C35_HandlerHasEngine /\ [][C35_HandlerStep]_vars

\* the batch of the current downloader was fetched and merged as a whole
C36_BatchComplete ==
    /\ hash_queue_ = <<>>
    /\ \A u \in hash_prefix..(hash_prefix + BatchUnits - 1), n \in 0..MaxNibble :
          <<"/", "r", "a", "n", "g", "e", "/">> \o UnitPrefix(u) \o <<nibble2hex(n)>> \in request_log.issued
    /\ Len(collection_) = BatchUnits * (MaxNibble + 1) * records_per_response

\* C36: whatever -t says, main gets to sort and write a batch and its
\* checkpoint only with the queue empty and every inner prefix of the batch
\* answered 200 and merged.
C36_WritesOnlyCompleteBatch ==
    pc \in {"finalize", "write_out", "write_checkpoint"} => C36_BatchComplete

\* C37: with -L below the end of the key space no downloader is given a
\* unit at or past L: every unit in a queue is one of [0, L).
C37_NoUnitPastLast ==
    last_hash_prefix < MaxHashPrefix =>
        \A k \in 1..Len(hash_queue_) :
            \E u \in 0..(last_hash_prefix - 1) : hash_queue_[k] = UnitText(u)

\* From one batch to the next the start of the batch grows, in a run with
\* worker threads.
C38_LoopStep ==
    (num_threads >= 1 /\ pc = "write_checkpoint" /\ pc' = "for_test") => hash_prefix' > hash_prefix

\* C38: for every step the option check lets through, 0 included, the start
\* of the batch strictly increases from one batch to the next, so that the
\* loop runs a finite number of batches.
C38_StartIncreases == [][C38_LoopStep]_vars

\* a step of worker w in http_worker or in log
C39_WorkerStep(w) ==
    \/ VerboseWhileTest(w) \/ VerboseLockQueue(w) \/ Pop(w) \/ VerboseNibbleTest(w)
    \/ VerboseFetch(w) \/ LockCollection(w) \/ VerboseInsert(w) \/ LogEnter(w) \/ LogLeave(w)

\* As long as a started thread has not returned some thread can take a step;
\* output_mutex_ is held inside log only, and never together with both other
\* mutexes.
C39_SomeoneRuns ==
    /\ (\E w \in 1..started : wpc[w] # "returned") => ENABLED (\E w \in Workers : C39_WorkerStep(w))
    /\ \A w \in Workers :
          /\ output_mutex_ = w => wpc[w] \in {Logging(at) : at \in LogCalls}
          /\ ~(output_mutex_ = w /\ queue_mutex_ = w /\ collection_mutex_ = w)

\* A thread that takes queue_mutex_ or collection_mutex_ does not hold
\* output_mutex_, neither before nor after the step.
C39_AcquireStep ==
    \A w \in Workers :
        (\/ queue_mutex_ # w /\ queue_mutex_' = w
         \/ collection_mutex_ # w /\ collection_mutex_' = w) =>
            output_mutex_ # w /\ output_mutex_' # w

\* C39: the workers never deadlock on queue_mutex_, collection_mutex_ and
\* output_mutex_: output_mutex_ is taken with one of the other two held, and
\* neither of them is ever taken with output_mutex_ held.
C39_LockOrderAcyclic == []C39_SomeoneRuns /\ [][C39_AcquireStep]_vars

\* One thread logs the empty queue with queue_mutex_ and output_mutex_ held
\* while another, holding collection_mutex_, waits for output_mutex_.
C39_Witness ==
    \E w, v \in 1..started :
        /\ w # v
        /\ queue_mutex_ = w
        /\ output_mutex_ = w
        /\ wpc[w] = "logging_empty"
        /\ collection_mutex_ = v
        /\ wpc[v] = "log_total"

====
